---- MODULE Spec2Model ----
(***************************************************************************)
(* A model of webthing-python: one Thing (webthing/thing.py) with its      *)
(* properties (property.py, value.py), actions (action.py) and events      *)
(* (event.py), served by the handlers of webthing/server.py on one         *)
(* Tornado IO loop.  Every handler runs to its end before the next one     *)
(* starts, so every handler is one step of the model.                      *)
(***************************************************************************)
EXTENDS Integers, Sequences, FiniteSets, TLC

(***************************************************************************)
(* Bounds of the model.                                                    *)
(***************************************************************************)
MaxRequests == 2  \* requests of clients and drivers that reach the Thing
MaxHref == 4      \* segments an href grows to before set_href_prefix stops
MaxThings == 3    \* Things of a MultipleThings
MaxIdLen == 2     \* characters of a Thing identifier
MaxTime == 1      \* the clock utils.timestamp reads goes 0..MaxTime

(***************************************************************************)
(* Python / JSON values, tagged with their Python type.                    *)
(***************************************************************************)
JNull == [t |-> "null"]
JBool(b) == [t |-> "bool", b |-> b]
JInt(n) == [t |-> "int", n |-> n]
JStr(s) == [t |-> "str", s |-> s]
\* a key that is not in a dict
Absent == [t |-> "absent"]

\* what jsonschema takes for a "number": an int or a float, not a bool
IsNumber(v) == v.t \in {"int", "float"}
\* the integer Python compares: bool is a subclass of int
NumOf(v) == IF v.t = "int" THEN v.n ELSE IF v.t = "bool" /\ v.b THEN 1 ELSE 0
Comparable(v) == v.t \in {"int", "bool"}

\* no time_completed yet (None)
NoTime == -1

(***************************************************************************)
(* The Thing under test: the lamp of test-server.py (properties on and     *)
(* level, action fade, event overheated), with a read-only sensor reading  *)
(* and a second event kind so that read-only writes and event scoping have *)
(* something to act on.  level and humidity forward their writes to a      *)
(* device, on does not.                                                    *)
(***************************************************************************)
Handles == {1, 2}
PropNames == {"on", "level", "humidity"}
\* with the properties that declare no type ("note") and the type 'null'
\* ("nothing"), which no client of the requests above writes
AllPropNames == PropNames \cup {"note", "nothing"}
\* names a client may send; "color" is no property of the Thing
PropRequestNames == PropNames \cup {"color"}
ActionNames == {"fade", "toggle"}
EventNames == {"overheated", "lowbattery", "unknown"}

NoMeta == [hasType |-> FALSE, type |-> "", readOnly |-> FALSE,
           hasMin |-> FALSE, minimum |-> 0, hasMax |-> FALSE, maximum |-> 0,
           enum |-> {}]
LevelMinimum == 0
LevelMaximum == 100

metadata(name) ==
  CASE name = "on" -> [NoMeta EXCEPT !.hasType = TRUE, !.type = "boolean"]
    [] name = "level" -> [NoMeta EXCEPT !.hasType = TRUE, !.type = "number",
                            !.hasMin = TRUE, !.minimum = LevelMinimum,
                            !.hasMax = TRUE, !.maximum = LevelMaximum]
    [] name = "humidity" -> [NoMeta EXCEPT !.hasType = TRUE, !.type = "number",
                               !.readOnly = TRUE]
    [] name = "note" -> NoMeta
    [] name = "nothing" -> [NoMeta EXCEPT !.hasType = TRUE, !.type = "null"]

\* properties whose Value was given a value_forwarder
HasForwarder(name) == name \in {"level", "humidity", "note"}

InitialValue(name) ==
  CASE name = "on" -> JBool(TRUE)
    [] name = "level" -> JInt(50)
    [] name = "humidity" -> JInt(0)
    [] name = "note" -> JInt(0)
    [] name = "nothing" -> JNull

\* values a client writes, and readings the sensor driver reports
WriteValues == {JNull, JBool(FALSE), JInt(-1), JInt(10), JInt(50), JInt(101)}
SensorReadings == {JNull, JInt(0), JInt(10)}

(***************************************************************************)
(* Property.validate_value: "" when the value passes, else the reason of   *)
(* the PropertyError, without the bound it quotes (or TypeError, when      *)
(* Python cannot compare the value with the bound).                        *)
(***************************************************************************)
TypeCheck(t, value) ==
  CASE t = "null" -> "Value must be null"
    [] t = "boolean" -> IF value.t # "bool" THEN "Value must be a boolean" ELSE ""
    [] t = "object" -> IF value.t # "object" THEN "Value must be an object" ELSE ""
    [] t = "array" -> IF value.t # "array" THEN "Value must be an array" ELSE ""
    [] t = "number" -> IF value.t \notin {"float", "int"}
                         THEN "Value must be a number" ELSE ""
    [] t = "integer" -> IF value.t # "int" THEN "Value must be an integer" ELSE ""
    [] t = "string" -> IF value.t # "str" THEN "Value must be a string" ELSE ""
    [] OTHER -> ""

\* validate_value without its bounds, a variant C4 has to tell from it
validate_unbounded(md, value) ==
  IF md.hasType /\ TypeCheck(md.type, value) # "" THEN TypeCheck(md.type, value)
  ELSE IF md.readOnly THEN "Read-only property"
  ELSE ""

\* validate_value without its readOnly test, a variant C5 has to tell from it
validate_writable(md, value) ==
  IF md.hasType /\ TypeCheck(md.type, value) # "" THEN TypeCheck(md.type, value)
  ELSE IF md.hasMin /\ NumOf(value) < md.minimum THEN "Value less than minimum"
  ELSE IF md.hasMax /\ NumOf(value) > md.maximum THEN "Value greater than maximum"
  ELSE ""

validate_value(md, value) ==
  IF md.hasType /\ TypeCheck(md.type, value) # "" THEN TypeCheck(md.type, value)
  ELSE IF md.readOnly THEN "Read-only property"
  ELSE IF md.hasMin /\ ~Comparable(value) THEN "TypeError"
  ELSE IF md.hasMin /\ NumOf(value) < md.minimum THEN "Value less than minimum"
  ELSE IF md.hasMax /\ ~Comparable(value) THEN "TypeError"
  ELSE IF md.hasMax /\ NumOf(value) > md.maximum THEN "Value greater than maximum"
  ELSE IF md.enum # {} /\ value \notin md.enum THEN "Invalid enum value"
  ELSE ""

(***************************************************************************)
(* State.                                                                  *)
(***************************************************************************)
VARIABLES
  last_value,        \* Value.last_value of every property
  forwarded,         \* the calls made to value forwarders, in order
  subscribers,       \* Thing.subscribers
  available_events,  \* Thing.available_events: name -> its 'subscribers' set
  events,            \* Thing.events
  available_actions, \* Thing.available_actions (the registered names)
  actions,           \* Thing.actions: name -> list of references to Action objects
  objs,              \* the Action objects ever constructed, by id
  conn,              \* each websocket: "new", "open", "closed" (channel gone,
                     \* on_close not yet run) or "gone"
  inbox,             \* the messages written to each websocket, in order
  dropped,           \* websockets whose write raised WebSocketClosedError in
                     \* the last handler
  cancelled,         \* the actions whose cancel() was called
  href_prefix,       \* Thing.href_prefix, a path as its list of segments
  hrefs,             \* the hrefs the Thing's properties, action kinds and
                     \* event kinds carry
  things,            \* the container the server was given: SingleThing or
                     \* MultipleThings
  server,            \* WebThingServer: whether __init__ has run, its base_path
                     \* and the href_prefix of every Thing, strings as the
                     \* lists of their characters
  ioloop,            \* callbacks spawned on the IO loop, in order
  now,               \* the clock utils.timestamp reads
  next_id,           \* the next fresh action id (uuid4)
  nreq,              \* requests handled so far
  resp               \* what the last handler answered

vars == <<last_value, forwarded, subscribers, available_events, events,
          available_actions, actions, objs, conn, inbox, dropped, cancelled,
          href_prefix, hrefs, things, server, ioloop, now, next_id, nreq, resp>>

(***************************************************************************)
(* The part of the state a handler and the calls it makes may change, as   *)
(* one record handed from call to call; exc is the exception in flight and *)
(* device tells whether the device behind the forwarders refuses.          *)
(***************************************************************************)
Cur ==
  [last_value |-> last_value, forwarded |-> forwarded, inbox |-> inbox,
   dropped |-> {}, cancelled |-> cancelled, events |-> events,
   actions |-> actions, objs |-> objs, href_prefix |-> href_prefix,
   hrefs |-> hrefs, things |-> things, server |-> server,
   ioloop |-> ioloop, next_id |-> next_id, now |-> now, exc |-> "", err |-> "",
   ret |-> 0, device |-> "ok"]

\* the handler runs when the clock reads t
At(t) == [Cur EXCEPT !.now = t]

Raise(S, exc, err) == [S EXCEPT !.exc = exc, !.err = err]

\* Python's ==, which compares bool and int by number
PyEq(a, b) == IF Comparable(a) /\ Comparable(b) THEN NumOf(a) = NumOf(b) ELSE a = b

(***************************************************************************)
(* Notification fan-out (thing.py).                                        *)
(***************************************************************************)
PropertyStatus(name, value) ==
  [messageType |-> "propertyStatus", name |-> name, value |-> value]
\* the href of an action description ends with the id of the action
ActionStatus(a) ==
  [messageType |-> "actionStatus", name |-> a.name, id |-> a.id,
   status |-> a.status, timeRequested |-> a.time_requested,
   timeCompleted |-> a.time_completed]
\* Event.as_event_description: data is left out when it is None
as_event_description(e) ==
  [name |-> e.name, timestamp |-> e.time,
   data |-> IF e.data = JNull THEN Absent ELSE e.data]
EventMessage(e) == [messageType |-> "event", data |-> as_event_description(e)]
ErrorMessage(message) ==
  [messageType |-> "error", status |-> "400 Bad Request", message |-> message]
\* the error that answers a requestAction message quotes the data of the message
ActionErrorMessage(data) ==
  [messageType |-> "error", status |-> "400 Bad Request",
   message |-> "Invalid action request", request |-> data]

\* WebSocketHandler.write_message: raises when the channel is closed
\* a write that overtakes the messages written before, a variant C22 has to
\* tell from write_message
write_message_ahead(S, ws, message) ==
  IF conn[ws] = "open" THEN [S EXCEPT !.inbox[ws] = <<message>> \o @]
  ELSE Raise(S, "WebSocketClosedError", "")

write_message(S, ws, message) ==
  IF conn[ws] = "open" THEN [S EXCEPT !.inbox[ws] = Append(@, message)]
  ELSE Raise(S, "WebSocketClosedError", "")

\* the write without the except around it, a variant C10 has to tell from
\* TryWrite
write_unguarded(S, ws, message) == write_message(S, ws, message)

\* try: subscriber.write_message(message) / except WebSocketClosedError: pass
TryWrite(S, ws, message) ==
  LET R == write_message(S, ws, message)
  IN IF R.exc = "WebSocketClosedError" THEN [S EXCEPT !.dropped = @ \cup {ws}] ELSE R

\* for subscriber in audience: ...
RECURSIVE FanOut(_, _, _)
FanOut(S, todo, message) ==
  IF todo = {} \/ S.exc # "" THEN S
  ELSE LET ws == CHOOSE x \in todo : TRUE
       IN FanOut(TryWrite(S, ws, message), todo \ {ws}, message)

\* a fan-out made twice, a variant C11 has to tell from property_notify
property_notify_twice(S, name) ==
  FanOut(FanOut(S, subscribers, PropertyStatus(name, S.last_value[name])),
         subscribers, PropertyStatus(name, S.last_value[name]))

property_notify(S, name) ==
  FanOut(S, subscribers, PropertyStatus(name, S.last_value[name]))

action_notify(S, id) == FanOut(S, subscribers, ActionStatus(S.objs[id]))

\* an event sent to the Thing-wide subscribers, a variant C6 has to tell from
\* event_notify
event_notify_everyone(S, e) ==
  IF e.name \notin DOMAIN available_events THEN S
  ELSE FanOut(S, subscribers, EventMessage(e))

\* an event of no registered kind sent to the Thing-wide subscribers, a
\* variant C28 has to tell from event_notify
event_notify_unregistered(S, e) ==
  IF e.name \notin DOMAIN available_events
    THEN FanOut(S, subscribers, EventMessage(e))
    ELSE FanOut(S, available_events[e.name], EventMessage(e))

event_notify(S, e) ==
  IF e.name \notin DOMAIN available_events THEN S
  ELSE FanOut(S, available_events[e.name], EventMessage(e))

(***************************************************************************)
(* Value and Property (value.py, property.py).                             *)
(***************************************************************************)
\* an update that does not look at last_value, a variant C3 has to tell from
\* notify_of_external_update
notify_unconditionally(S, name, value) ==
  property_notify([S EXCEPT !.last_value[name] = value], name)

\* an update that takes None for a value, a variant C26 has to tell from
\* notify_of_external_update
notify_of_anything(S, name, value) ==
  IF ~PyEq(value, S.last_value[name])
    THEN property_notify([S EXCEPT !.last_value[name] = value], name)
    ELSE S

\* an update announced before it is stored, a variant C18 has to tell from
\* notify_of_external_update
notify_before_store(S, name, value) ==
  IF value # JNull /\ ~PyEq(value, S.last_value[name])
    THEN [property_notify(S, name) EXCEPT !.last_value[name] = value]
    ELSE S

notify_of_external_update(S, name, value) ==
  IF value # JNull /\ ~PyEq(value, S.last_value[name])
    THEN property_notify([S EXCEPT !.last_value[name] = value], name)
    ELSE S

\* a set that forwards only what will change the cache, a variant C29 has to
\* tell from Value.set
Value_set_on_change(S, name, value) ==
  LET changes == value # JNull /\ ~PyEq(value, S.last_value[name])
      F == IF HasForwarder(name) /\ changes
             THEN [S EXCEPT !.forwarded = Append(@, <<name, value>>)]
             ELSE S
  IN IF HasForwarder(name) /\ changes /\ S.device = "fails"
       THEN Raise(F, "Exception", "forwarder")
       ELSE notify_of_external_update(F, name, value)

\* a set that updates first and forwards afterwards, a variant C24 has to
\* tell from Value.set
Value_set_then_forward(S, name, value) ==
  LET N == notify_of_external_update(S, name, value)
      F == IF HasForwarder(name)
             THEN [N EXCEPT !.forwarded = Append(@, <<name, value>>)]
             ELSE N
  IN IF HasForwarder(name) /\ S.device = "fails"
       THEN Raise(F, "Exception", "forwarder")
       ELSE F

\* Value.set; the forwarder raises when the device refuses (S.device)
Value_set(S, name, value) ==
  LET F == IF HasForwarder(name)
             THEN [S EXCEPT !.forwarded = Append(@, <<name, value>>)]
             ELSE S
  IN IF HasForwarder(name) /\ S.device = "fails"
       THEN Raise(F, "Exception", "forwarder")
       ELSE notify_of_external_update(F, name, value)

set_value(S, name, value) ==
  LET e == validate_value(metadata(name), value)
  IN IF e = "TypeError" THEN Raise(S, "TypeError", e)
     ELSE IF e # "" THEN Raise(S, "PropertyError", e)
     ELSE Value_set(S, name, value)

\* Thing.set_property: an unknown name is ignored
set_property(S, name, value) ==
  IF name \notin AllPropNames THEN S ELSE set_value(S, name, value)

(***************************************************************************)
(* Events (event.py, thing.py).                                            *)
(***************************************************************************)
Event(name, data, time) == [name |-> name, data |-> data, time |-> time]

\* an event put at the head of the log, a variant C7 has to tell from add_event
add_event_first(S, e) == event_notify([S EXCEPT !.events = <<e>> \o @], e)

add_event(S, e) == event_notify([S EXCEPT !.events = Append(@, e)], e)

\* Thing.get_event_descriptions: name "" stands for event_name=None
get_event_descriptions(evs, name) ==
  LET kept == IF name = "" THEN evs ELSE SelectSeq(evs, LAMBDA e : e.name = name)
  IN [i \in 1..Len(kept) |-> as_event_description(kept[i])]

(***************************************************************************)
(* Actions (action.py, thing.py) and the fade action of test-server.py.    *)
(***************************************************************************)
OverheatedData == 102

FadeInput(level, duration) == [t |-> "object", level |-> level, duration |-> duration]
\* what a client sends as input: nothing, or an object with or without its keys
FadeInputs ==
  {JNull, FadeInput(JInt(10), JInt(0)), FadeInput(JInt(50), JInt(0)),
   FadeInput(JInt(101), JInt(0)), FadeInput(JInt(10), Absent)}

\* 'input' in action_type['metadata']
HasInputSchema(name) == name = "fade"

\* jsonschema.validate(input_, metadata['input']) for the schema of fade: an
\* object whose level, if present, is a number in 0..100 and whose duration, if
\* present, is a number; no key is required
\* a schema that takes every input, a variant C8 has to tell from validate
validate_anything(input, name) == TRUE

validate(input, name) ==
  /\ input.t = "object"
  /\ \/ input.level = Absent
     \/ IsNumber(input.level) /\ input.level.n >= LevelMinimum
                              /\ input.level.n <= LevelMaximum
  /\ input.duration = Absent \/ IsNumber(input.duration)

\* Action.__init__; a path is the list of its segments, '' the empty list
Action(id, name, input, time) ==
  [id |-> id, name |-> name, input |-> input, href_prefix |-> <<>>,
   href |-> <<"actions", name, id>>, status |-> "created",
   time_requested |-> time, time_completed |-> NoTime]

\* Action.set_href_prefix
Action_set_href_prefix(a, prefix) == [a EXCEPT !.href_prefix = prefix]

\* Action.get_href
Action_get_href(a) == a.href_prefix \o a.href

\* Property.__init__: the part of a Property its href is made of
Property(name) == [href_prefix |-> <<>>, href |-> <<"properties", name>>]

\* Property.set_href_prefix
Property_set_href_prefix(p, prefix) == [p EXCEPT !.href_prefix = prefix]

\* Property.get_href
Property_get_href(p) == p.href_prefix \o p.href

\* Thing.add_property, of a new Property of that name around a new Value
add_property(S, name) ==
  [S EXCEPT !.hrefs.properties =
              (name :> Property_set_href_prefix(Property(name), S.href_prefix)) @@ @,
            !.last_value[name] = InitialValue(name)]

\* Thing.add_available_action: what it does to the metadata and to the
\* Thing's actions
add_available_action(S, name) ==
  [S EXCEPT !.hrefs.available_actions = (name :> <<"actions", name>>) @@ @,
            !.actions = (name :> <<>>) @@ @]

\* Thing.add_available_event: what it does to the metadata
add_available_event(S, name) ==
  [S EXCEPT !.hrefs.available_events = (name :> <<"events", name>>) @@ @]

\* Thing.set_href_prefix
set_href_prefix(S, prefix) ==
  LET listed == UNION {{S.actions[name][i] : i \in 1..Len(S.actions[name])} :
                       name \in DOMAIN S.actions}
  IN [S EXCEPT
        !.href_prefix = prefix,
        !.hrefs.available_actions = [name \in DOMAIN @ |-> prefix \o @[name]],
        !.hrefs.available_events = [name \in DOMAIN @ |-> prefix \o @[name]],
        !.hrefs.properties =
           [name \in DOMAIN @ |-> Property_set_href_prefix(@[name], prefix)],
        !.objs = [id \in DOMAIN @ |->
                    IF id \in listed THEN Action_set_href_prefix(@[id], prefix)
                    ELSE @[id]]]

\* a request that files its record twice, a variant C32 has to tell from
\* perform_action
perform_action_listed_twice(S, name, input) ==
  IF name \notin available_actions THEN [S EXCEPT !.ret = 0]
  ELSE IF HasInputSchema(name) /\ ~validate(input, name) THEN [S EXCEPT !.ret = 0]
  ELSE LET id == S.next_id
           S1 == [S EXCEPT !.objs = @ @@ (id :> Action_set_href_prefix(
                                                  Action(id, name, input, S.now),
                                                  S.href_prefix)),
                           !.next_id = @ + 1]
           S2 == action_notify(S1, id)
       IN [S2 EXCEPT !.actions[name] = Append(Append(@, id), id), !.ret = id]

\* Thing.perform_action: ret is the id of the new Action, or 0 for None
perform_action(S, name, input) ==
  IF name \notin available_actions THEN [S EXCEPT !.ret = 0]
  ELSE IF HasInputSchema(name) /\ ~validate(input, name) THEN [S EXCEPT !.ret = 0]
  ELSE LET id == S.next_id
           S1 == [S EXCEPT !.objs = @ @@ (id :> Action_set_href_prefix(
                                                  Action(id, name, input, S.now),
                                                  S.href_prefix)),
                           !.next_id = @ + 1]
           S2 == action_notify(S1, id)
       IN [S2 EXCEPT !.actions[name] = Append(@, id), !.ret = id]

\* Thing.get_action: the id of the first Action of that name and id, or 0
get_action(S, name, id) ==
  IF name \notin DOMAIN S.actions THEN 0
  ELSE IF \E i \in 1..Len(S.actions[name]) : S.actions[name][i] = id THEN id
  ELSE 0

\* a removal of the oldest record, a variant C13 has to tell from list.remove
ListRemoveHead(list, id) == Tail(list)

\* list.remove: drops the first reference equal to id
ListRemove(list, id) ==
  LET i == CHOOSE k \in 1..Len(list) :
             list[k] = id /\ \A j \in 1..(k - 1) : list[j] # id
  IN SubSeq(list, 1, i - 1) \o SubSeq(list, i + 1, Len(list))

\* Action.cancel: not overridden by FadeAction, its body is pass; the call is
\* noted
cancel(S, id) == [S EXCEPT !.cancelled = @ \cup {id}]

\* Thing.remove_action: ret is 1 for True, 0 for False
remove_action(S, name, id) ==
  IF get_action(S, name, id) = 0 THEN [S EXCEPT !.ret = 0]
  ELSE LET S1 == cancel(S, id)
       IN [S1 EXCEPT !.actions[name] = ListRemove(@, id), !.ret = 1]

\* a work body that leaves the Thing alone, a variant C2 has to tell from
\* FadeAction.perform_action
Fade_perform_nothing(S, id) == S

\* FadeAction.perform_action: self.input[...] raises TypeError when the input
\* is None and KeyError for a missing key
Fade_perform_action(S, id) ==
  LET input == S.objs[id].input
  IN IF input.t # "object" THEN Raise(S, "TypeError", "input")
     ELSE IF input.duration = Absent THEN Raise(S, "KeyError", "duration")
     ELSE IF input.level = Absent THEN Raise(S, "KeyError", "level")
     ELSE LET S1 == set_property(S, "level", input.level)
          IN IF S1.exc # "" THEN S1
             ELSE add_event(S1, Event("overheated", JInt(OverheatedData), S1.now))

\* finish without its notification, a variant C1 has to tell from finish
finish_quietly(S, id) ==
  [S EXCEPT !.objs[id].status = "completed", !.objs[id].time_completed = S.now]

\* a finish that leaves time_completed alone, a variant C20 has to tell from
\* finish
finish_untimed(S, id) == action_notify([S EXCEPT !.objs[id].status = "completed"], id)

\* Action.finish
finish(S, id) ==
  action_notify([S EXCEPT !.objs[id].status = "completed",
                          !.objs[id].time_completed = S.now], id)

\* a start that finishes whatever the work body did, a variant C30 has to
\* tell from start
start_and_finish(S, id) ==
  LET S1 == action_notify([S EXCEPT !.objs[id].status = "pending"], id)
      S2 == Fade_perform_action(S1, id)
  IN [finish([S2 EXCEPT !.exc = ""], id) EXCEPT !.exc = S2.exc]

\* a start that announces 'pending' and leaves the work for later, a variant
\* C33 has to tell from start
start_without_work(S, id) ==
  action_notify([S EXCEPT !.objs[id].status = "pending"], id)

\* Action.start
start(S, id) ==
  LET S1 == action_notify([S EXCEPT !.objs[id].status = "pending"], id)
      S2 == Fade_perform_action(S1, id)
  IN IF S2.exc # "" THEN S2 ELSE finish(S2, id)

(***************************************************************************)
(* Subscriptions (thing.py).                                               *)
(***************************************************************************)
\* an open that registers nobody, a variant C35 has to tell from
\* add_subscriber
add_no_subscriber(subs, ws) == subs

add_subscriber(subs, ws) == subs \cup {ws}

remove_event_subscriber(avail, name, ws) ==
  IF name \in DOMAIN avail /\ ws \in avail[name]
    THEN [avail EXCEPT ![name] = @ \ {ws}]
    ELSE avail

add_event_subscriber(avail, name, ws) ==
  IF name \in DOMAIN avail THEN [avail EXCEPT ![name] = @ \cup {ws}] ELSE avail

\* a close that leaves the event subscriptions, a variant C12 has to tell from
\* remove_subscriber
keep_subscriber_events(avail, ws) == avail

\* for name in self.available_events: self.remove_event_subscriber(name, ws)
remove_subscriber_events(avail, ws) ==
  [name \in DOMAIN avail |-> remove_event_subscriber(avail, name, ws)[name]]

(***************************************************************************)
(* The handlers of server.py, the IO loop and the drivers: one step each.  *)
(* resp is the last request and its answer: the status code or the         *)
(* exception the handler ended with, and the reason of a PropertyError.    *)
(***************************************************************************)
Commit(S) ==
  /\ last_value' = S.last_value
  /\ forwarded' = S.forwarded
  /\ inbox' = S.inbox
  /\ dropped' = S.dropped
  /\ cancelled' = S.cancelled
  /\ href_prefix' = S.href_prefix
  /\ hrefs' = S.hrefs
  /\ things' = S.things
  /\ server' = S.server
  /\ events' = S.events
  /\ actions' = S.actions
  /\ objs' = S.objs
  /\ ioloop' = S.ioloop
  /\ next_id' = S.next_id
  /\ now' = S.now

Budget == nreq < MaxRequests /\ nreq' = nreq + 1

\* ThingHandler.open; the websockets are named in the order they connect
Open(ws) ==
  /\ conn[ws] = "new"
  /\ \A other \in Handles : other < ws => conn[other] # "new"
  /\ conn' = [conn EXCEPT ![ws] = "open"]
  /\ subscribers' = add_subscriber(subscribers, ws)
  /\ resp' = [op |-> "open", code |-> ""]
  /\ Commit(Cur)
  /\ UNCHANGED <<available_events, available_actions, nreq>>

\* the peer goes away: from now on write_message raises WebSocketClosedError
ChannelClose(ws) ==
  /\ conn[ws] = "open"
  /\ conn' = [conn EXCEPT ![ws] = "closed"]
  /\ resp' = [op |-> "channel_close", code |-> ""]
  /\ Commit(Cur)
  /\ UNCHANGED <<subscribers, available_events, available_actions, nreq>>

\* ThingHandler.on_close -> Thing.remove_subscriber
OnClose(ws) ==
  /\ conn[ws] = "closed"
  /\ conn' = [conn EXCEPT ![ws] = "gone"]
  /\ subscribers' = subscribers \ {ws}
  /\ available_events' = remove_subscriber_events(available_events, ws)
  /\ resp' = [op |-> "on_close", code |-> ""]
  /\ Commit(Cur)
  /\ UNCHANGED <<available_actions, nreq>>

\* a loop that gives up the message at the first rejected write, a variant
\* C31 has to tell from SetPropertyLoop
RECURSIVE SetPropertyLoopUntilError(_, _, _)
SetPropertyLoopUntilError(S, ws, data) ==
  IF data = <<>> \/ S.exc # "" THEN S
  ELSE LET R == set_property(S, data[1][1], data[1][2])
       IN IF R.exc = "PropertyError"
            THEN write_message(S, ws, ErrorMessage(R.err))
            ELSE SetPropertyLoopUntilError(R, ws, Tail(data))

\* ThingHandler.on_message, messageType setProperty
RECURSIVE SetPropertyLoop(_, _, _)
SetPropertyLoop(S, ws, data) ==
  IF data = <<>> \/ S.exc # "" THEN S
  ELSE LET R == set_property(S, data[1][1], data[1][2])
           S1 == IF R.exc = "PropertyError"
                   THEN write_message(S, ws, ErrorMessage(R.err))
                   ELSE R
       IN SetPropertyLoop(S1, ws, Tail(data))

\* the data of the setProperty messages clients send: a dict, so the keys of
\* one message differ
SetPropertyMessages ==
  {<<<<name, value>>>> : name \in PropRequestNames, value \in {JInt(10), JInt(101)}}
  \cup {<<<<"on", JBool(FALSE)>>>>,
        <<<<"level", JInt(101)>>, <<"on", JBool(FALSE)>>>>,
        <<<<"level", JInt(10)>>, <<"humidity", JInt(10)>>>>}

WsSetProperty(ws, data) ==
  /\ conn[ws] = "open"
  /\ Budget
  /\ LET S == SetPropertyLoop(Cur, ws, data)
     IN /\ Commit(S)
        /\ resp' = [op |-> "setProperty", ws |-> ws, data |-> data, code |-> S.exc]
  /\ UNCHANGED <<subscribers, available_events, available_actions, conn>>

\* a loop that puts its callbacks at the head of the IO loop's queue, a
\* variant C34 has to tell from RequestActionLoop
RECURSIVE RequestActionLoopAhead(_, _, _, _)
RequestActionLoopAhead(S, ws, data, todo) ==
  IF todo = <<>> \/ S.exc # "" THEN S
  ELSE LET R == perform_action(S, todo[1][1], todo[1][2])
           S1 == IF R.ret # 0
                   THEN [R EXCEPT !.ioloop = <<R.ret>> \o @]
                   ELSE write_message(R, ws, ActionErrorMessage(data))
       IN RequestActionLoopAhead(S1, ws, data, Tail(todo))

\* ThingHandler.on_message, messageType requestAction
RECURSIVE RequestActionLoop(_, _, _, _)
RequestActionLoop(S, ws, data, todo) ==
  IF todo = <<>> \/ S.exc # "" THEN S
  ELSE LET R == perform_action(S, todo[1][1], todo[1][2])
           S1 == IF R.ret # 0
                   THEN [R EXCEPT !.ioloop = Append(@, R.ret)]
                   ELSE write_message(R, ws, ActionErrorMessage(data))
       IN RequestActionLoop(S1, ws, data, Tail(todo))

\* the data of the requestAction messages clients send
RequestActionMessages ==
  {<<<<name, input>>>> : name \in ActionNames, input \in FadeInputs}
  \cup {<<<<"toggle", JNull>>, <<"fade", FadeInput(JInt(10), JInt(0))>>>>}

WsRequestAction(ws, data, t) ==
  /\ conn[ws] = "open"
  /\ t >= now
  /\ Budget
  /\ LET S == RequestActionLoop(At(t), ws, data, data)
     IN /\ Commit(S)
        /\ resp' = [op |-> "requestAction", ws |-> ws, data |-> data, code |-> S.exc]
  /\ UNCHANGED <<subscribers, available_events, available_actions, conn>>

\* ThingHandler.on_message, messageType addEventSubscription
WsAddEventSubscription(ws, name) ==
  /\ conn[ws] = "open"
  /\ available_events' = add_event_subscriber(available_events, name, ws)
  /\ resp' = [op |-> "addEventSubscription", ws |-> ws, name |-> name, code |-> ""]
  /\ Commit(Cur)
  /\ UNCHANGED <<subscribers, available_actions, conn, nreq>>

\* PropertyHandler.put
PropertyPut(name, value) ==
  /\ Budget
  /\ IF name \in AllPropNames
       THEN LET S == set_property(Cur, name, value)
            IN IF S.exc = "PropertyError"
                 THEN /\ Commit(Cur)
                      /\ resp' = [op |-> "put", name |-> name, value |-> value,
                                  code |-> "400", err |-> S.err]
                 ELSE /\ Commit(S)
                      /\ resp' = [op |-> "put", name |-> name, value |-> value,
                                  code |-> IF S.exc = "" THEN "200" ELSE S.exc,
                                  body |-> S.last_value[name]]
       ELSE /\ Commit(Cur)
            /\ resp' = [op |-> "put", name |-> name, value |-> value,
                        code |-> "404"]
  /\ UNCHANGED <<subscribers, available_events, available_actions, conn>>

\* Thing.set_property called by the program that embeds the Thing
ThingSetProperty(name, value) ==
  /\ Budget
  /\ LET S == set_property(Cur, name, value)
     IN /\ Commit(S)
        /\ resp' = [op |-> "set_property", name |-> name, value |-> value,
                    code |-> S.exc, err |-> S.err]
  /\ UNCHANGED <<subscribers, available_events, available_actions, conn>>

\* the orders in which Python may iterate a set
Orders(set) ==
  {order \in [1..Cardinality(set) -> set] :
     \A i, j \in 1..Cardinality(set) : order[i] = order[j] => i = j}

\* "for subscriber in self.subscribers" of Thing.property_notify over the live
\* set, when the write_message of the subscriber leaver ends with
\* thing.remove_subscriber(self): the iterator of a set raises RuntimeError at
\* its next step once the size of the set has changed
RECURSIVE LiveLoop(_, _, _, _, _, _)
LiveLoop(S, live, size, order, message, leaver) ==
  IF Cardinality(live) # size
    THEN Raise(S, "RuntimeError", "Set changed size during iteration")
  ELSE IF order = <<>> THEN S
  ELSE LET ws == Head(order)
           S1 == TryWrite(S, ws, message)
           live1 == IF ws = leaver /\ ws \notin S1.dropped THEN live \ {ws} ELSE live
       IN LiveLoop(S1, live1, size, Tail(order), message, leaver)

\* a sensor driver reports a reading while the subscriber leaver leaves from
\* within its delivery: Value.notify_of_external_update, Thing.property_notify
\* and, re-entered, Thing.remove_subscriber
ExternalUpdateLeaving(name, value, order, leaver) ==
  /\ Budget
  /\ order \in Orders(subscribers)
  /\ IF value # JNull /\ ~PyEq(value, last_value[name])
       THEN LET S0 == [Cur EXCEPT !.last_value[name] = value]
                S == LiveLoop(S0, subscribers, Cardinality(subscribers), order,
                              PropertyStatus(name, value), leaver)
                left == leaver \in subscribers /\ leaver \notin S.dropped
            IN /\ Commit(S)
               /\ subscribers' = IF left THEN subscribers \ {leaver} ELSE subscribers
               /\ available_events' =
                    IF left THEN remove_subscriber_events(available_events, leaver)
                    ELSE available_events
               /\ resp' = [op |-> "external_update_leaving", name |-> name,
                           value |-> value, leaver |-> leaver, code |-> S.exc]
       ELSE /\ Commit(Cur)
            /\ UNCHANGED <<subscribers, available_events>>
            /\ resp' = [op |-> "external_update_leaving", name |-> name,
                        value |-> value, leaver |-> leaver, code |-> ""]
  /\ UNCHANGED <<available_actions, conn>>

\* Thing.set_property called by the program that embeds the Thing, while the
\* device behind the forwarders answers or refuses
SetPropertyOn(name, value, device) ==
  /\ Budget
  /\ LET S == set_property([Cur EXCEPT !.device = device], name, value)
     IN /\ Commit(S)
        /\ resp' = [op |-> "set_property", name |-> name, value |-> value,
                    device |-> device, code |-> S.exc, err |-> S.err]
  /\ UNCHANGED <<subscribers, available_events, available_actions, conn>>

\* a sensor driver reports a reading: Value.notify_of_external_update
ExternalUpdate(name, value) ==
  /\ Budget
  /\ Commit(notify_of_external_update(Cur, name, value))
  /\ resp' = [op |-> "external_update", name |-> name, value |-> value,
              code |-> ""]
  /\ UNCHANGED <<subscribers, available_events, available_actions, conn>>

\* a POST that hands nothing to the IO loop, a variant C27 has to tell from
\* Post
PostUnscheduled(op, name, input, t) ==
  /\ t >= now
  /\ Budget
  /\ LET S == perform_action(At(t), name, input)
     IN IF S.ret # 0
          THEN /\ Commit(S)
               /\ resp' = [op |-> op, name |-> name, input |-> input, code |-> "201",
                           body |-> ActionStatus(S.objs[S.ret])]
          ELSE /\ Commit(S)
               /\ resp' = [op |-> op, name |-> name, input |-> input, code |-> "400"]
  /\ UNCHANGED <<subscribers, available_events, available_actions, conn>>

\* a POST that starts the action itself before it answers, a variant C19 has
\* to tell from Post
PostAndStart(op, name, input, t) ==
  /\ t >= now
  /\ Budget
  /\ LET S == perform_action(At(t), name, input)
     IN IF S.ret # 0
          THEN /\ Commit(start(S, S.ret))
               /\ resp' = [op |-> op, name |-> name, input |-> input, code |-> "201",
                           body |-> ActionStatus(S.objs[S.ret])]
          ELSE /\ Commit(S)
               /\ resp' = [op |-> op, name |-> name, input |-> input, code |-> "400"]
  /\ UNCHANGED <<subscribers, available_events, available_actions, conn>>

\* ActionsHandler.post and ActionHandler.post at time t (op tells which)
Post(op, name, input, t) ==
  /\ t >= now
  /\ Budget
  /\ LET S == perform_action(At(t), name, input)
     IN IF S.ret # 0
          THEN /\ Commit([S EXCEPT !.ioloop = Append(@, S.ret)])
               /\ resp' = [op |-> op, name |-> name, input |-> input, code |-> "201",
                           body |-> ActionStatus(S.objs[S.ret])]
          ELSE /\ Commit(S)
               /\ resp' = [op |-> op, name |-> name, input |-> input, code |-> "400"]
  /\ UNCHANGED <<subscribers, available_events, available_actions, conn>>

ActionsPost(name, input, t) == Post("post", name, input, t)
ActionPost(name, input, t) == Post("post", name, input, t)

\* ActionIDHandler.delete
Delete(name, id) ==
  /\ LET S == remove_action(Cur, name, id)
     IN /\ Commit(S)
        /\ resp' = [op |-> "delete", name |-> name, id |-> id,
                    code |-> IF S.ret = 1 THEN "204" ELSE "404"]
  /\ UNCHANGED <<subscribers, available_events, available_actions, conn>>

ActionDelete(name, id) == Budget /\ Delete(name, id)

\* ActionIDHandler.get: the description of the action of that name and id
ActionGet(name, id) ==
  /\ resp' = IF get_action(Cur, name, id) = 0
               THEN [op |-> "get", name |-> name, id |-> id, code |-> "404"]
               ELSE [op |-> "get", name |-> name, id |-> id, code |-> "200",
                     body |-> ActionStatus(objs[get_action(Cur, name, id)])]
  /\ Commit(Cur)
  /\ UNCHANGED <<subscribers, available_events, available_actions, conn, nreq>>

\* a DELETE that is not counted among the requests: the actions there are
\* bound how many of them succeed
ActionDeleteMore(name, id) == Delete(name, id) /\ UNCHANGED nreq

\* the IO loop runs its next callback at time t: perform_action(action), which
\* calls action.start()
RunCallback(t) ==
  /\ ioloop # <<>>
  /\ t >= now
  /\ LET S == start([At(t) EXCEPT !.ioloop = Tail(@)], Head(ioloop))
     IN /\ Commit(S)
        /\ resp' = [op |-> "start", id |-> Head(ioloop), code |-> S.exc]
  /\ UNCHANGED <<subscribers, available_events, available_actions, conn, nreq>>

\* a driver reports an event at time t: Thing.add_event(Event(thing, name, data))
DriverAddEvent(name, data, t) ==
  /\ t >= now
  /\ Budget
  /\ Commit(add_event(At(t), Event(name, data, t)))
  /\ resp' = [op |-> "add_event", event |-> Event(name, data, t), code |-> ""]
  /\ UNCHANGED <<subscribers, available_events, available_actions, conn>>

(***************************************************************************)
(* The state after make_thing() and WebThingServer.__init__.               *)
(***************************************************************************)
\* the Things of the example servers, in the order they are listed
ThingNames == <<"thing0", "thing1", "thing2", "thing3">>

\* a list long enough for indices of two digits
ManyThingNames ==
  ThingNames \o <<"thing4", "thing5", "thing6", "thing7", "thing8", "thing9", "thing10">>

\* None, where a Thing is expected
NoThing == "None"

\* SingleThing.__init__ and MultipleThings.__init__
SingleThing(thing) == [kind |-> "single", things |-> <<thing>>]
MultipleThings(list) == [kind |-> "multiple", things |-> list]

\* an identifier is a string, here the list of its characters
IdChars == {"0", "1", "5", "-", "+", "a"}
Digits == <<"0", "1", "2", "3", "4", "5", "6", "7", "8", "9">>
DigitValue ==
  [c \in {Digits[i] : i \in 1..Len(Digits)} |-> (CHOOSE i \in 1..Len(Digits) : Digits[i] = c) - 1]
Identifiers == UNION {[1..n -> IdChars] : n \in 0..MaxIdLen}

\* the number a string of decimal digits writes
RECURSIVE DecimalValue(_)
DecimalValue(digits) ==
  IF digits = <<>> THEN 0
  ELSE 10 * DecimalValue(SubSeq(digits, 1, Len(digits) - 1)) + DigitValue[digits[Len(digits)]]

\* Python's int() of a string: an optional sign and at least one digit, or
\* ValueError (ok is FALSE)
int(idx) ==
  LET signed == idx # <<>> /\ idx[1] \in {"-", "+"}
      digits == IF signed THEN Tail(idx) ELSE idx
  IN IF digits # <<>> /\ \A i \in 1..Len(digits) : digits[i] \in DOMAIN DigitValue
       THEN [ok |-> TRUE,
             n |-> IF signed /\ idx[1] = "-" THEN 0 - DecimalValue(digits)
                   ELSE DecimalValue(digits)]
       ELSE [ok |-> FALSE, n |-> 0]

\* no identifier: the default None of SingleThing.get_thing's parameter
NoId == <<"None">>

\* a lookup by index in a container of one, a variant C17 has to tell from
\* SingleThing.get_thing
get_thing_by_index(c, idx) ==
  IF int(idx).ok /\ int(idx).n = 0 THEN c.things[1] ELSE NoThing

\* SingleThing.get_thing
SingleThing_get_thing(c, idx) == c.things[1]

\* a lookup that leaves negative indices to the list, which counts them from
\* its end: a variant C16 has to tell from MultipleThings.get_thing
get_thing_from_end(c, idx) ==
  LET parsed == int(idx)
  IN IF ~parsed.ok THEN NoThing
     ELSE IF parsed.n >= Len(c.things) \/ parsed.n < 0 - Len(c.things) THEN NoThing
     ELSE IF parsed.n < 0 THEN c.things[Len(c.things) + parsed.n + 1]
     ELSE c.things[parsed.n + 1]

\* MultipleThings.get_thing
MultipleThings_get_thing(c, idx) ==
  LET parsed == int(idx)
  IN IF ~parsed.ok THEN NoThing
     ELSE IF parsed.n < 0 \/ parsed.n >= Len(c.things) THEN NoThing
     ELSE c.things[parsed.n + 1]

\* BaseHandler.get_thing: the container of the server resolves the identifier
GetThing(thing_id) ==
  /\ resp' = [op |-> "get_thing", thing_id |-> thing_id,
              thing |-> IF things.kind = "single"
                          THEN SingleThing_get_thing(things, thing_id)
                          ELSE MultipleThings_get_thing(things, thing_id)]
  /\ Commit(Cur)
  /\ UNCHANGED <<subscribers, available_events, available_actions, conn, nreq>>

\* str.rstrip('/')
RECURSIVE rstrip(_)
rstrip(chars) ==
  IF chars # <<>> /\ chars[Len(chars)] = "/"
    THEN rstrip(SubSeq(chars, 1, Len(chars) - 1))
    ELSE chars

\* '{}'.format(idx) of a list index: its decimal digits
RECURSIVE str(_)
str(n) ==
  IF n < 10 THEN <<Digits[n + 1]>> ELSE str(n \div 10) \o <<Digits[(n % 10) + 1]>>

\* a construction that counts the Things from one, a variant C37 has to tell
\* from WebThingServer
WebThingServerFromOne(S, base_path) ==
  LET base == rstrip(base_path)
      list == S.things.things
  IN [S EXCEPT !.server =
        [constructed |-> TRUE,
         base_path |-> base,
         href_prefix |->
           IF S.things.kind = "multiple"
             THEN [t \in DOMAIN @.href_prefix |->
                     IF \E i \in 1..Len(list) : list[i] = t
                       THEN base \o <<"/">> \o
                              str(CHOOSE i \in 1..Len(list) :
                                    list[i] = t /\ \A j \in (i + 1)..Len(list) : list[j] # t)
                       ELSE @.href_prefix[t]]
             ELSE [@.href_prefix EXCEPT ![list[1]] = base]]]

\* WebThingServer.__init__: the base path loses its trailing slashes and
\* every Thing is given its prefix, the Things of a MultipleThings in the
\* order of enumerate (a Thing listed twice keeps the prefix of its last place)
WebThingServer(S, base_path) ==
  LET base == rstrip(base_path)
      list == S.things.things
  IN [S EXCEPT !.server =
        [constructed |-> TRUE,
         base_path |-> base,
         href_prefix |->
           IF S.things.kind = "multiple"
             THEN [t \in DOMAIN @.href_prefix |->
                     IF \E i \in 1..Len(list) : list[i] = t
                       THEN base \o <<"/">> \o
                              str((CHOOSE i \in 1..Len(list) :
                                     list[i] = t /\ \A j \in (i + 1)..Len(list) : list[j] # t)
                                  - 1)
                       ELSE @.href_prefix[t]]
             ELSE [@.href_prefix EXCEPT ![list[1]] = base]]]

\* the base paths a server is constructed with
BasePaths == {<<>>, <<"/">>, <<"/", "a">>, <<"/", "a", "/">>, <<"/", "1">>}

\* the server is constructed over its container
Construct(base_path) ==
  /\ ~server.constructed
  /\ Commit(WebThingServer(Cur, base_path))
  /\ resp' = [op |-> "WebThingServer", base_path |-> base_path, code |-> ""]
  /\ UNCHANGED <<subscribers, available_events, available_actions, conn, nreq>>

\* the route of a Thing, base_path + r'/(?P<thing_id>\d+)/?', matched against
\* a whole path: the thing_id it captures, or no match
ThingRoute(base_path, path) ==
  LET n == Len(base_path)
      rest == SubSeq(path, n + 2, Len(path))
      digits == IF rest # <<>> /\ rest[Len(rest)] = "/"
                  THEN SubSeq(rest, 1, Len(rest) - 1) ELSE rest
  IN IF /\ Len(path) >= n + 2
        /\ SubSeq(path, 1, n) = base_path
        /\ path[n + 1] = "/"
        /\ digits # <<>>
        /\ \A i \in 1..Len(digits) : digits[i] \in DOMAIN DigitValue
       THEN [ok |-> TRUE, thing_id |-> digits]
       ELSE [ok |-> FALSE, thing_id |-> <<>>]

\* a request for the path of a Thing reaches ThingHandler, which resolves the
\* captured thing_id; 404 when no route matches or no Thing is found
RouteRequest(path) ==
  /\ server.constructed
  /\ things.kind = "multiple"
  /\ LET route == ThingRoute(server.base_path, path)
         thing == IF route.ok THEN MultipleThings_get_thing(things, route.thing_id)
                  ELSE NoThing
     IN resp' = [op |-> "route", path |-> path, thing |-> thing,
                 code |-> IF thing = NoThing THEN "404" ELSE "200"]
  /\ Commit(Cur)
  /\ UNCHANGED <<subscribers, available_events, available_actions, conn, nreq>>

\* the prefixes WebThingServer.__init__ assigns: base_path for a single Thing,
\* base_path/idx for the Things of a MultipleThings
Prefixes == {<<>>, <<"0">>, <<"1">>}

\* a call of Thing.set_href_prefix, while the hrefs stay within MaxHref segments
SetHrefPrefix(prefix) ==
  /\ \A name \in DOMAIN hrefs.available_actions :
       Len(prefix) + Len(hrefs.available_actions[name]) <= MaxHref
  /\ \A name \in DOMAIN hrefs.available_events :
       Len(prefix) + Len(hrefs.available_events[name]) <= MaxHref
  /\ Commit(set_href_prefix(Cur, prefix))
  /\ resp' = [op |-> "set_href_prefix", prefix |-> prefix, code |-> ""]
  /\ UNCHANGED <<subscribers, available_events, available_actions, conn, nreq>>

\* a call of Thing.add_property
AddProperty(name) ==
  /\ Commit(add_property(Cur, name))
  /\ resp' = [op |-> "add_property", name |-> name, code |-> ""]
  /\ UNCHANGED <<subscribers, available_events, available_actions, conn, nreq>>

\* a call of Thing.add_available_action
AddAvailableAction(name) ==
  /\ Commit(add_available_action(Cur, name))
  /\ available_actions' = available_actions \cup {name}
  /\ resp' = [op |-> "add_available_action", name |-> name, code |-> ""]
  /\ UNCHANGED <<subscribers, available_events, conn, nreq>>

\* a call of Thing.add_available_event
AddAvailableEvent(name) ==
  /\ Commit(add_available_event(Cur, name))
  /\ available_events' = (name :> {}) @@ available_events
  /\ resp' = [op |-> "add_available_event", name |-> name, code |-> ""]
  /\ UNCHANGED <<subscribers, available_actions, conn, nreq>>

(***************************************************************************)
(* JWT authentication (jwtauth.py): the decorator wraps the _execute of a  *)
(* handler class. H is the tornado handler of one request: whether it is   *)
(* finished, its status, what was written and the exception in flight.    *)
(***************************************************************************)
NewHandler(websocket) ==
  [finished |-> FALSE, status |-> 200, body |-> <<>>, exc |-> "",
   websocket |-> websocket]

\* RequestHandler.set_status, write and finish, as return_auth_error calls
\* them: write and finish raise once the handler is finished, and the three
\* may be methods a WebSocketHandler does not support (unsupported)
RequestHandler_set_status(H, unsupported, code) ==
  IF H.websocket /\ unsupported THEN [H EXCEPT !.exc = "RuntimeError"]
  ELSE [H EXCEPT !.status = code]

RequestHandler_write(H, unsupported, chunk) ==
  IF (H.websocket /\ unsupported) \/ H.finished THEN [H EXCEPT !.exc = "RuntimeError"]
  ELSE [H EXCEPT !.body = Append(@, chunk)]

RequestHandler_finish(H, unsupported) ==
  IF (H.websocket /\ unsupported) \/ H.finished THEN [H EXCEPT !.exc = "RuntimeError"]
  ELSE [H EXCEPT !.finished = TRUE]

AUTHORIZTION_ERROR_CODE == 401

\* a header or query value: None, the empty string, or a string given by the
\* words str.split() finds in it (none for a string of blanks)
NoValue == [given |-> FALSE, words |-> <<>>]
EmptyString == [given |-> TRUE, words |-> <<"">>]
Words(words) == [given |-> TRUE, words |-> words]
Truthy(value) == value.given /\ value # EmptyString

\* str.lower of the words that name a method
lower(word) ==
  IF word = "Bearer" THEN "bearer" ELSE IF word = "Basic" THEN "basic" ELSE word

\* jwt.decode(token, SECRET_KEY, options): whether it returns; it raises for
\* a token whose signature or claims do not verify
jwt_decode(token) == token = "good"

is_valid_header(parts) ==
  IF lower(parts[1]) # "bearer" THEN FALSE
  ELSE IF Len(parts) = 1 THEN FALSE
  ELSE IF Len(parts) > 2 THEN FALSE
  ELSE TRUE

\* an error answer that leaves the handler unfinished, a variant C38 has to
\* tell from return_auth_error
return_auth_error_unfinished(H, unsupported, message) ==
  LET H1 == RequestHandler_set_status(H, unsupported, AUTHORIZTION_ERROR_CODE)
  IN IF H1.exc # "" THEN H1 ELSE RequestHandler_write(H1, unsupported, message)

return_auth_error(H, unsupported, message) ==
  LET H1 == RequestHandler_set_status(H, unsupported, AUTHORIZTION_ERROR_CODE)
      H2 == IF H1.exc # "" THEN H1 ELSE RequestHandler_write(H1, unsupported, message)
  IN IF H2.exc # "" THEN H2 ELSE RequestHandler_finish(H2, unsupported)

return_header_error(H, unsupported) ==
  return_auth_error(H, unsupported, "invalid header authorization")

\* require_auth from auth.split() on: the header is judged, then parts[1] is
\* decoded whatever the judgement was
check_parts(H, unsupported, parts) ==
  IF parts = <<>> THEN [H EXCEPT !.exc = "IndexError"]
  ELSE LET H1 == IF ~is_valid_header(parts) THEN return_header_error(H, unsupported)
                 ELSE H
       IN IF H1.exc # "" THEN H1
          ELSE IF Len(parts) < 2 THEN [H1 EXCEPT !.exc = "IndexError"]
          ELSE IF jwt_decode(parts[2]) THEN H1
          ELSE return_auth_error(H1, unsupported, "decode error")

require_auth(H, unsupported, request, enable) ==
  IF ~enable THEN H
  ELSE IF Truthy(request.header) THEN check_parts(H, unsupported, request.header.words)
  ELSE IF request.upgrade = "websocket" /\ ~request.query.given
    THEN [H EXCEPT !.exc = "TypeError"]
  ELSE IF request.upgrade = "websocket" /\ Truthy(request.query)
    THEN check_parts(H, unsupported, request.query.words)
  ELSE LET H1 == RequestHandler_write(H, unsupported, "missing authorization")
       IN IF H1.exc # "" THEN H1 ELSE RequestHandler_finish(H1, unsupported)

\* the _execute the decorated class had: tornado's RequestHandler._execute
\* runs prepare and returns when the handler is finished already; else it
\* calls the method of the request
handler_execute(H) == ~H.finished

\* the _execute jwtauth installs: whether the method of the request is
\* reached, and the handler as the gate left it
jwtauth(unsupported, request, enable) ==
  LET H == require_auth(NewHandler(request.upgrade = "websocket"), unsupported,
                        request, enable)
  IN [handler |-> H, executed |-> IF H.exc # "" THEN FALSE ELSE handler_execute(H)]

\* the requests sent to the decorated handlers: a PUT of level to
\* PropertyHandler, or a websocket upgrade to ThingHandler
AuthValues ==
  {NoValue, EmptyString, Words(<<>>), Words(<<"Bearer">>),
   Words(<<"Bearer", "good">>), Words(<<"bearer", "good">>),
   Words(<<"Bearer", "bad">>), Words(<<"Basic", "good">>),
   Words(<<"Basic", "bad">>), Words(<<"Bearer", "good", "more">>)}

AuthRequests ==
  {[upgrade |-> "None", header |-> h, query |-> NoValue, value |-> v] :
     h \in AuthValues, v \in {JInt(10), JInt(50)}}
  \cup {[upgrade |-> "websocket", header |-> h, query |-> q, value |-> JNull] :
          h \in {NoValue, Words(<<"Bearer", "good">>), Words(<<"Bearer", "bad">>)},
          q \in AuthValues}

\* a request to a decorated PropertyHandler: put runs if the gate lets it
AuthorizedPut(request, enable) ==
  /\ request.upgrade # "websocket"
  /\ Budget
  /\ LET gate == jwtauth(FALSE, request, enable)
         S == IF gate.executed THEN set_property(Cur, "level", request.value) ELSE Cur
     IN /\ Commit(S)
        /\ resp' = [op |-> "jwtauth", request |-> request, enable |-> enable,
                    executed |-> gate.executed, handler |-> gate.handler,
                    code |-> gate.handler.exc]
  /\ UNCHANGED <<subscribers, available_events, available_actions, conn>>

\* a websocket upgrade to a decorated ThingHandler: get and open run if the
\* gate lets them
AuthorizedOpen(ws, unsupported, request, enable) ==
  /\ request.upgrade = "websocket"
  /\ conn[ws] = "new"
  /\ \A other \in Handles : other < ws => conn[other] # "new"
  /\ Budget
  /\ LET gate == jwtauth(unsupported, request, enable)
     IN /\ conn' = IF gate.executed THEN [conn EXCEPT ![ws] = "open"] ELSE conn
        /\ subscribers' = IF gate.executed THEN add_subscriber(subscribers, ws)
                           ELSE subscribers
        /\ resp' = [op |-> "jwtauth", request |-> request, enable |-> enable,
                    executed |-> gate.executed, handler |-> gate.handler,
                    code |-> gate.handler.exc]
  /\ Commit(Cur)
  /\ UNCHANGED <<available_events, available_actions>>

ThingInit ==
  /\ last_value = [name \in AllPropNames |-> InitialValue(name)]
  /\ forwarded = <<>>
  /\ subscribers = {}
  /\ available_events = [name \in {"overheated", "lowbattery"} |-> {}]
  /\ events = <<>>
  /\ available_actions = {"fade"}
  /\ actions = [name \in {"fade"} |-> <<>>]
  /\ objs = <<>>
  /\ conn = [ws \in Handles |-> "new"]
  /\ inbox = [ws \in Handles |-> <<>>]
  /\ dropped = {}
  /\ cancelled = {}
  /\ href_prefix = <<>>
  /\ server = [constructed |-> FALSE, base_path |-> <<>>,
               href_prefix |->
                 [t \in {ManyThingNames[i] : i \in 1..Len(ManyThingNames)} |-> <<>>]]
  /\ hrefs = [properties |-> [name \in AllPropNames |-> Property(name)],
              available_actions |-> [name \in {"fade"} |-> <<"actions", name>>],
              available_events |->
                [name \in {"overheated", "lowbattery"} |-> <<"events", name>>]]
  /\ ioloop = <<>>
  /\ now = 0
  /\ next_id = 1
  /\ nreq = 0
  /\ resp = [op |-> "init", code |-> ""]

\* the server of one Thing
Init == ThingInit /\ things = SingleThing("thing0")

\* the containers a server is given: one Thing, or a list of up to MaxThings
Containers ==
  {SingleThing("thing0")} \cup
  {MultipleThings([i \in 1..n |-> ThingNames[i]]) : n \in 1..MaxThings}

\* a server of any of these containers
LookupInit == ThingInit /\ things \in Containers

Times == 0..MaxTime

\* the events the drivers raise: a name and the data, None for no data
RaisedEvents ==
  {<<"overheated", JInt(OverheatedData)>>, <<"overheated", JNull>>,
   <<"lowbattery", JNull>>, <<"unknown", JNull>>}

Sockets(H) ==
  \/ \E ws \in H : Open(ws)
  \/ \E ws \in H : ChannelClose(ws)
  \/ \E ws \in H : OnClose(ws)

PropertyRequests(H) ==
  \/ \E ws \in H, data \in SetPropertyMessages : WsSetProperty(ws, data)
  \/ \E name \in PropRequestNames, value \in WriteValues : PropertyPut(name, value)
  \/ \E name \in PropNames, value \in WriteValues : ThingSetProperty(name, value)
  \/ \E value \in SensorReadings : ExternalUpdate("humidity", value)

ActionRequests(H) ==
  \/ \E ws \in H, data \in RequestActionMessages, t \in Times :
       WsRequestAction(ws, data, t)
  \/ \E name \in ActionNames, input \in FadeInputs, t \in Times :
       ActionsPost(name, input, t)
  \/ \E name \in ActionNames, input \in FadeInputs, t \in Times :
       ActionPost(name, input, t)
  \/ \E name \in ActionNames, id \in 1..next_id : ActionDelete(name, id)
  \/ \E t \in Times : RunCallback(t)

EventRequests(H) ==
  \/ \E ws \in H, name \in EventNames : WsAddEventSubscription(ws, name)
  \/ \E e \in RaisedEvents, t \in Times : DriverAddEvent(e[1], e[2], t)

Next == Sockets(Handles) \/ PropertyRequests(Handles) \/ ActionRequests(Handles)
          \/ EventRequests(Handles)

Spec == Init /\ [][Next]_vars

\* the Thing's properties alone, its actions alone, its events alone
PropertyNext == Sockets(Handles) \/ PropertyRequests(Handles)
PropertySpec == Init /\ [][PropertyNext]_vars

\* one websocket suffices to see the life of an action
ActionNext == Sockets({1}) \/ ActionRequests({1})
ActionSpec == Init /\ [][ActionNext]_vars

\* actions requested over REST and over a websocket, whose bodies return or
\* raise, and an IO loop that runs a callback that is waiting
CompletionNext ==
  \/ Sockets({1})
  \/ \E input \in {FadeInput(JInt(10), JInt(0)), FadeInput(JInt(10), Absent)},
        t \in Times : ActionsPost("fade", input, t)
  \/ \E t \in Times :
       WsRequestAction(1, <<<<"fade", FadeInput(JInt(50), JInt(0))>>>>, t)
  \/ \E t \in Times : RunCallback(t)

\* the IO loop takes the callback at its head: the steps of RunCallback, the
\* only ones that shorten ioloop, told by what they do to it
IOLoopRuns == ioloop # <<>> /\ ioloop' = Tail(ioloop)

\* a callback handed to spawn_callback is run: the IO loop does not stop
\* while callbacks wait
FairCompletionSpec == Init /\ [][CompletionNext]_vars /\ WF_ioloop(IOLoopRuns)

EventNext == Sockets(Handles) \/ EventRequests(Handles)
EventSpec == Init /\ [][EventNext]_vars

\* the three fan-outs with two websockets: a property written, an action
\* requested and run, an event raised, all while the clock stands still
NotifyRequests ==
  \/ \E value \in {JInt(10), JInt(101)} : PropertyPut("level", value)
  \/ \E ws \in Handles : WsAddEventSubscription(ws, "overheated")
  \/ DriverAddEvent("overheated", JNull, now)
  \/ ActionsPost("fade", FadeInput(JInt(10), JInt(0)), now)
  \/ RunCallback(now)

NotifyNext == Sockets(Handles) \/ NotifyRequests
NotifySpec == Init /\ [][NotifyNext]_vars

\* actions requested, removed and run, with nobody listening
RemoveNext ==
  \/ \E t \in Times : ActionsPost("fade", FadeInput(JInt(10), JInt(0)), t)
  \/ \E name \in ActionNames, id \in 1..next_id : ActionDeleteMore(name, id)
  \/ \E t \in Times : RunCallback(t)
RemoveSpec == Init /\ [][RemoveNext]_vars

\* the streaming client of test-client.py: one websocket that requests actions
\* a Thing whose kinds are registered and whose prefix is assigned in any
\* order, while the clock stands still
HrefNext ==
  \/ \E prefix \in Prefixes : SetHrefPrefix(prefix)
  \/ AddProperty("on")
  \/ \E name \in ActionNames : AddAvailableAction(name)
  \/ AddAvailableEvent("overheated")
  \/ \E name \in ActionNames : ActionsPost(name, FadeInput(JInt(10), JInt(0)), now)
HrefSpec == Init /\ [][HrefNext]_vars

\* the handlers resolve the identifiers of the requests' paths
LookupNext ==
  \/ \E thing_id \in Identifiers : GetThing(thing_id)
  \/ things.kind = "single" /\ GetThing(NoId)
LookupSpec == LookupInit /\ [][LookupNext]_vars

\* REST writes, streaming writes, sensor readings and action bodies, while
\* the clock stands still
ConsistencyNext ==
  \/ Sockets(Handles)
  \/ \E ws \in Handles, data \in SetPropertyMessages : WsSetProperty(ws, data)
  \/ \E value \in {JInt(10), JInt(50), JInt(101)} : PropertyPut("level", value)
  \/ \E value \in SensorReadings : ExternalUpdate("humidity", value)
  \/ \E level \in {JInt(10), JInt(50)} : ActionsPost("fade", FadeInput(level, JInt(0)), now)
  \/ RunCallback(now)
ConsistencySpec == Init /\ [][ConsistencyNext]_vars

\* actions requested, run and removed while action kinds are registered
LiveListNext ==
  \/ \E t \in Times : ActionsPost("fade", FadeInput(JInt(10), JInt(0)), t)
  \/ \E t \in Times : RunCallback(t)
  \/ \E name \in ActionNames, id \in 1..next_id : ActionDeleteMore(name, id)
  \/ \E name \in ActionNames : AddAvailableAction(name)
LiveListSpec == Init /\ [][LiveListNext]_vars

\* what is written to the properties with and without a declared type
ValueWrites == {JNull, JInt(0), JInt(10), JInt(50), JInt(101)}

\* writes of every origin to single properties, and readings of the drivers
ValueNext ==
  \/ Sockets({1})
  \/ \E name \in {"level", "note", "nothing"}, value \in ValueWrites :
       PropertyPut(name, value)
  \/ \E name \in {"level", "note"}, value \in ValueWrites, device \in {"ok", "fails"} :
       SetPropertyOn(name, value, device)
  \/ \E value \in ValueWrites : WsSetProperty(1, <<<<"note", value>>>>)
  \/ \E name \in {"humidity", "note"}, value \in SensorReadings :
       ExternalUpdate(name, value)
ValueSpec == Init /\ [][ValueNext]_vars

\* sensor readings fanned out while a subscriber unsubscribes from within
\* its delivery
LeavingNext ==
  \/ Sockets(Handles)
  \/ \E ws \in Handles : WsAddEventSubscription(ws, "overheated")
  \/ \E value \in SensorReadings, leaver \in Handles :
       \E order \in Orders(subscribers) :
         ExternalUpdateLeaving("humidity", value, order, leaver)
LeavingSpec == Init /\ [][LeavingNext]_vars

\* actions of two kinds requested over REST and over a websocket, run and
\* removed, while kinds are registered and the clock stands still
ListsNext ==
  \/ Sockets({1})
  \/ \E name \in ActionNames : AddAvailableAction(name)
  \/ \E name \in ActionNames : ActionsPost(name, FadeInput(JInt(10), JInt(0)), now)
  \/ \E data \in {<<<<"toggle", JNull>>, <<"fade", FadeInput(JInt(10), JInt(0))>>>>,
                   <<<<"fade", FadeInput(JInt(10), JInt(0))>>, <<"toggle", JNull>>>>} :
       WsRequestAction(1, data, now)
  \/ \E name \in ActionNames, id \in 1..next_id : ActionDelete(name, id)
  \/ RunCallback(now)
ListsSpec == Init /\ [][ListsNext]_vars

\* actions whose bodies return or raise, requested, run and queried over
\* REST while a websocket listens, the clock standing still
ObserveNext ==
  \/ Sockets({1})
  \/ WsAddEventSubscription(1, "overheated")
  \/ \E input \in {FadeInput(JInt(10), JInt(0)), FadeInput(JInt(10), Absent)} :
       ActionsPost("fade", input, now)
  \/ RunCallback(now)
  \/ \E id \in 1..MaxRequests : ActionGet("fade", id)
ObserveSpec == Init /\ [][ObserveNext]_vars

\* a websocket subscribes to event kinds while kinds are registered, again
\* or for the first time, and events are raised, the clock standing still
RegisterNext ==
  \/ Sockets({1})
  \/ \E name \in EventNames : WsAddEventSubscription(1, name)
  \/ \E e \in RaisedEvents : DriverAddEvent(e[1], e[2], now)
  \/ \E name \in {"overheated", "unknown"} : AddAvailableEvent(name)
RegisterSpec == Init /\ [][RegisterNext]_vars

\* servers constructed over one Thing and over lists of Things, short and
\* long, and requests that name a Thing by its index or by its path
AddressContainers ==
  {SingleThing("thing0")} \cup
  {MultipleThings(SubSeq(ManyThingNames, 1, n)) :
     n \in (1..MaxThings) \cup {Len(ManyThingNames)}}

AddressInit == ThingInit /\ things \in AddressContainers

AddressNext ==
  \/ \E base_path \in BasePaths : Construct(base_path)
  \/ \E i \in 0..Len(things.things) : GetThing(str(i))
  \/ \E i \in 1..Len(things.things), tail \in {<<>>, <<"/">>, <<"/", "0">>} :
       RouteRequest(server.href_prefix[things.things[i]] \o tail)
AddressSpec == AddressInit /\ [][AddressNext]_vars

\* requests with every kind of Authorization value to decorated handlers,
\* with the authentication enabled or not
AuthNext ==
  \/ \E request \in AuthRequests, enable \in BOOLEAN : AuthorizedPut(request, enable)
  \/ \E ws \in Handles, unsupported \in BOOLEAN, request \in AuthRequests,
        enable \in BOOLEAN : AuthorizedOpen(ws, unsupported, request, enable)
AuthSpec == Init /\ [][AuthNext]_vars

StreamNext ==
  \/ Sockets({1})
  \/ \E data \in RequestActionMessages, t \in Times : WsRequestAction(1, data, t)
  \/ \E t \in Times : RunCallback(t)
StreamSpec == Init /\ [][StreamNext]_vars

(***************************************************************************)
(* What the claims talk about.                                             *)
(***************************************************************************)
Range(seq) == {seq[i] : i \in 1..Len(seq)}

\* the websockets a notification reaches: subscribed, and the channel is there
Listening(ws) == ws \in subscribers /\ conn[ws] = "open"

\* the statuses of action id a websocket was told, oldest first
StatusesSeen(box, id) ==
  LET seen == SelectSeq(box, LAMBDA m : m.messageType = "actionStatus" /\ m.id = id)
  IN [i \in 1..Len(seen) |-> seen[i].status]

\* the propertyStatus messages a websocket was sent, oldest first
PropertyStatusesSeen(box) ==
  SelectSeq(box, LAMBDA m : m.messageType = "propertyStatus")

\* the ids of the actions the step constructs
Constructed == DOMAIN objs' \ DOMAIN objs

(***************************************************************************)
(* C1                                                                      *)
(***************************************************************************)
C1_Lifecycle ==
  \A id \in DOMAIN objs :
    LET a == objs[id]
    IN /\ a.status \in {"created", "pending", "completed"}
       /\ a.status = "created" <=> id \in Range(ioloop)
       /\ a.status = "completed" =>
            a.time_completed # NoTime /\ a.time_requested <= a.time_completed
       /\ \A ws \in Handles :
            LET seen == StatusesSeen(inbox[ws], id)
            IN Listening(ws) /\ Len(seen) > 0 /\ seen[1] = "created" =>
                 seen = CASE a.status = "created" -> <<"created">>
                          [] a.status = "pending" -> <<"created", "pending">>
                          [] a.status = "completed" ->
                               <<"created", "pending", "completed">>

C1_Step ==
  /\ \A id \in Constructed :
       /\ objs'[id].status = "created"
       /\ resp'.op = "post" =>
            resp'.code = "201" /\ resp'.body = ActionStatus(objs'[id])
                               /\ resp'.body.status = "created"
       /\ \A ws \in Handles :
            Listening(ws) => StatusesSeen(inbox'[ws], id) = <<"created">>
  /\ resp'.op = "start" /\ resp'.code = "" =>
       /\ objs[resp'.id].status = "created"
       /\ objs'[resp'.id].status = "completed"
       /\ \A ws \in Handles :
            Listening(ws) =>
              StatusesSeen(inbox'[ws], resp'.id)
                = StatusesSeen(inbox[ws], resp'.id) \o <<"pending", "completed">>

C2_Step ==
  /\ resp'.op = "requestAction" =>
       \A id \in Constructed :
         /\ id \in Range(ioloop')
         /\ StatusesSeen(inbox'[resp'.ws], id) = <<"created">>
  /\ resp'.op = "start" /\ resp'.code = "" =>
       LET a == objs[resp'.id]
           level == a.input.level
           pending == ActionStatus([a EXCEPT !.status = "pending"])
           completed == ActionStatus(objs'[resp'.id])
       IN level # last_value["level"] =>
            /\ completed.status = "completed"
            /\ last_value'["level"] = level
            /\ \A ws \in Handles :
                 Listening(ws) =>
                   inbox'[ws] = inbox[ws] \o <<pending,
                                                PropertyStatus("level", level),
                                                completed>>

\* C2: a websocket that requests the fade action is told created for it; when
\* the action runs and its level differs from the level of the Thing, a
\* listening websocket is sent actionStatus pending, one propertyStatus with
\* the new level and actionStatus completed, in this order and nothing else,
\* and afterwards the action is completed and the property holds the level.
C2_EndToEnd == [][C2_Step]_vars

C2_Observed ==
  /\ resp.op = "start" /\ resp.code = ""
  /\ Listening(1)
  /\ Len(inbox[1]) = 4
  /\ StatusesSeen(inbox[1], resp.id) = <<"created", "pending", "completed">>
  /\ inbox[1][3] = PropertyStatus("level", JInt(10))
  /\ objs[resp.id].status = "completed"
  /\ last_value["level"] = JInt(10)

(***************************************************************************)
(* C3                                                                      *)
(***************************************************************************)
\* the request writes to a property the value the property holds
WritesHeldValue(name, value) == name \in PropNames /\ value = last_value[name]

C3_Step ==
  (\/ resp'.op \in {"set_property", "put"}
        /\ WritesHeldValue(resp'.name, resp'.value)
   \/ resp'.op = "setProperty"
        /\ \A i \in 1..Len(resp'.data) :
             WritesHeldValue(resp'.data[i][1], resp'.data[i][2]))
  => /\ last_value' = last_value
     /\ \A ws \in Handles :
          PropertyStatusesSeen(inbox'[ws]) = PropertyStatusesSeen(inbox[ws])

C4_Step ==
  resp'.op \in {"set_property", "put"} /\ resp'.name \in PropNames =>
    LET name == resp'.name
        v == resp'.value
        md == metadata(name)
    IN md.hasMin /\ md.hasMax /\ ~md.readOnly /\ v.t = "int" =>
         IF v.n < md.minimum \/ v.n > md.maximum
           THEN /\ resp'.code = IF resp'.op = "put" THEN "400" ELSE "PropertyError"
                /\ last_value' = last_value
                /\ forwarded' = forwarded
                /\ inbox' = inbox
           ELSE /\ resp'.code = IF resp'.op = "put" THEN "200" ELSE ""
                /\ last_value'[name] = v

\* C4: for a property with a minimum and a maximum, writing a number below the
\* minimum or above the maximum is rejected with a PropertyError (400 for a
\* PUT): the cached value stays, the forwarder is not called and no message is
\* sent; writing a number within the bounds succeeds and the property then
\* holds that number.
C4_BoundsEnforced == [][C4_Step]_vars

C4_AboveMaximum ==
  /\ resp.op = "set_property" /\ resp.code = "PropertyError"
  /\ resp.name = "level" /\ resp.value = JInt(LevelMaximum + 1)
  /\ resp.err = "Value greater than maximum"
  /\ Listening(1)

(***************************************************************************)
(* C5                                                                      *)
(***************************************************************************)
\* the calls of the forwarder of property name, oldest first
ForwardedOf(log, name) == SelectSeq(log, LAMBDA c : c[1] = name)

C5_Step ==
  \A name \in PropNames :
    metadata(name).readOnly =>
      /\ resp'.op \in {"set_property", "put"} /\ resp'.name = name =>
           /\ resp'.code = IF resp'.op = "put" THEN "400" ELSE "PropertyError"
           /\ last_value' = last_value
           /\ forwarded' = forwarded
           /\ inbox' = inbox
      /\ (resp'.op = "setProperty"
            /\ \E i \in 1..Len(resp'.data) : resp'.data[i][1] = name) =>
           /\ last_value'[name] = last_value[name]
           /\ ForwardedOf(forwarded', name) = ForwardedOf(forwarded, name)
           /\ \A ws \in Handles :
                \A i \in (Len(inbox[ws]) + 1)..Len(inbox'[ws]) :
                  inbox'[ws][i].messageType = "propertyStatus" =>
                    inbox'[ws][i].name # name
           /\ \E i \in (Len(inbox[resp'.ws]) + 1)..Len(inbox'[resp'.ws]) :
                inbox'[resp'.ws][i] = ErrorMessage("Read-only property")

\* C5: a readOnly property rejects every write of a value of its type, the
\* value it holds included, through Thing.set_property (PropertyError), REST
\* PUT (400) and a setProperty message (an error message to the sender): the
\* cached value stays, its forwarder is not called and no propertyStatus for
\* it is sent.
C5_ReadOnlyRejects == [][C5_Step]_vars

C5_HeldValueRejected ==
  /\ resp.op = "put" /\ resp.code = "400" /\ resp.err = "Read-only property"
  /\ resp.name = "humidity" /\ resp.value = last_value["humidity"]
  /\ Listening(1)

(***************************************************************************)
(* C6                                                                      *)
(***************************************************************************)
C6_Step ==
  resp'.op = "add_event" =>
    LET e == resp'.event
    IN \A ws \in Handles :
         inbox'[ws] = IF /\ e.name \in DOMAIN available_events
                         /\ ws \in available_events[e.name]
                         /\ conn[ws] = "open"
                        THEN Append(inbox[ws], EventMessage(e))
                        ELSE inbox[ws]

\* C6: add_event of an event named N sends the event message to the websockets
\* subscribed to N whose channel is there, once each, and to no other
\* websocket: not to one that subscribed to the Thing only, nor to one that
\* subscribed to another event.
C6_EventScoped == [][C6_Step]_vars

C6_OnlyTheSubscriber ==
  /\ resp.op = "add_event" /\ resp.event.name = "overheated"
  /\ Listening(1) /\ Listening(2)
  /\ available_events["overheated"] = {1}
  /\ available_events["lowbattery"] = {2}
  /\ inbox[1] = <<EventMessage(resp.event)>>
  /\ inbox[2] = <<>>

(***************************************************************************)
(* C7                                                                      *)
(***************************************************************************)
C7_Step ==
  /\ Len(events) <= Len(events') /\ SubSeq(events', 1, Len(events)) = events
  /\ resp'.op = "add_event" => events' = Append(events, resp'.event)
  /\ \A name \in EventNames \cup {""} :
       get_event_descriptions(events', name)
         = IF resp'.op = "add_event" /\ name \in {"", resp'.event.name}
             THEN Append(get_event_descriptions(events, name),
                         as_event_description(resp'.event))
             ELSE get_event_descriptions(events, name)

\* C7: the event log only grows at its end: after N calls of add_event,
\* get_event_descriptions() has N entries in the order of the calls, with a
\* name it has those of that name in the same order, and no step removes,
\* reorders or alters an entry.
C7_LogAppendOnly ==
  [](Len(get_event_descriptions(events, "")) = nreq) /\ [][C7_Step]_vars

C7_TwoLogged ==
  /\ Len(events) = 2
  /\ events[1].name = "lowbattery" /\ events[2].name = "overheated"
  /\ events[2].data # JNull
  /\ get_event_descriptions(events, "overheated")
       = <<as_event_description(events[2])>>

(***************************************************************************)
(* C8                                                                      *)
(***************************************************************************)
\* what the input schema of fade (test-server.py) does not take
SchemaInvalid(name, input) ==
  /\ name = "fade"
  /\ \/ input.t # "object"
     \/ /\ input.level # Absent
        /\ (input.level.n < LevelMinimum \/ input.level.n > LevelMaximum)

C8_Step ==
  /\ resp'.op = "post" /\ SchemaInvalid(resp'.name, resp'.input) =>
       /\ resp'.code = "400"
       /\ UNCHANGED <<objs, actions, ioloop, next_id, inbox, last_value,
                      forwarded, events, subscribers, available_events,
                      available_actions>>
  /\ (resp'.op = "requestAction"
        /\ \A i \in 1..Len(resp'.data) :
             SchemaInvalid(resp'.data[i][1], resp'.data[i][2])) =>
       /\ inbox' = [inbox EXCEPT ![resp'.ws] =
                      @ \o [i \in 1..Len(resp'.data) |->
                              ActionErrorMessage(resp'.data)]]
       /\ UNCHANGED <<objs, actions, ioloop, next_id, last_value, forwarded,
                      events, subscribers, available_events, available_actions>>

\* C8: requesting a registered action with an input its schema does not take
\* is rejected (None; 400 for a POST, an error message on a websocket): no
\* Action is constructed or put in the list, no actionStatus is sent, nothing
\* is scheduled on the IO loop and the Thing is left as it was.
C8_InvalidInputRejected == [][C8_Step]_vars

C8_Rejected ==
  /\ resp.op = "post" /\ resp.code = "400"
  /\ resp.name = "fade" /\ resp.input = FadeInput(JInt(LevelMaximum + 1), JInt(0))
  /\ Listening(1)
  /\ DOMAIN objs = {}

(***************************************************************************)
(* C9                                                                      *)
(***************************************************************************)
\* the request asks for one action, by a name that is registered or not
AsksFor(r, registered) ==
  \/ r.op = "post" /\ (r.name \in available_actions) = registered
  \/ r.op = "requestAction" /\ Len(r.data) = 1
       /\ (r.data[1][1] \in available_actions) = registered

\* what the client is answered: the status code, or the status and the text
\* of the message it is sent last
Answer(r, box) ==
  IF r.op = "post" THEN [code |-> r.code]
  ELSE LET m == box[r.ws][Len(box[r.ws])]
       IN [messageType |-> m.messageType, status |-> m.status, message |-> m.message]

C9_Step ==
  (/\ AsksFor(resp, TRUE) /\ DOMAIN objs = {}
   /\ AsksFor(resp', FALSE) /\ resp'.op = resp.op
   /\ Constructed = {}
   /\ (resp'.op = "requestAction" => resp'.ws = resp.ws))
  => Answer(resp', inbox') # Answer(resp, inbox)

\* C9: a request for an action whose name is not registered, made right after
\* the same kind of request for a registered action was rejected for its input
\* (no Action exists yet), is answered differently from that one: another
\* status code for a POST, another message on a websocket.
C9_NotFoundDistinct == [][C9_Step]_vars

(***************************************************************************)
(* C10                                                                     *)
(***************************************************************************)
C10_Step ==
  /\ resp'.code # "WebSocketClosedError"
  /\ (resp'.op = "put" /\ resp'.name \in PropNames
        /\ validate_value(metadata(resp'.name), resp'.value) = ""
        /\ resp'.value # last_value[resp'.name]) =>
       /\ last_value'[resp'.name] = resp'.value
       /\ \A ws \in Handles :
            Listening(ws) =>
              inbox'[ws] = Append(inbox[ws],
                                  PropertyStatus(resp'.name, resp'.value))
  /\ resp'.op = "add_event" =>
       /\ events' = Append(events, resp'.event)
       /\ \A ws \in Handles :
            (/\ resp'.event.name \in DOMAIN available_events
             /\ ws \in available_events[resp'.event.name]
             /\ conn[ws] = "open") =>
              inbox'[ws] = Append(inbox[ws], EventMessage(resp'.event))
  /\ (resp'.op = "post" /\ ~SchemaInvalid(resp'.name, resp'.input)
        /\ resp'.name \in available_actions) =>
       /\ resp'.code = "201"
       /\ \E id \in Constructed :
            /\ id \in Range(actions'[resp'.name])
            /\ \A ws \in Handles :
                 Listening(ws) =>
                   inbox'[ws] = Append(inbox[ws], ActionStatus(objs'[id]))
  /\ resp'.op = "start" =>
       /\ objs'[resp'.id].status = "completed"
       /\ \A ws \in Handles :
            Listening(ws) =>
              StatusesSeen(inbox'[ws], resp'.id)
                = StatusesSeen(inbox[ws], resp'.id) \o <<"pending", "completed">>

\* C10: whatever subscribers have lost their channel, a property write, a
\* raised event, an action request and an action run never end with
\* WebSocketClosedError, their change of state is made (the value written, the
\* event logged, the action listed, the action completed), and every
\* subscriber of the audience whose channel is there is sent the message.
C10_BestEffortFanOut == [][C10_Step]_vars

C10_OneClosedOneServed ==
  /\ resp.op = "start" /\ resp.code = ""
  /\ dropped = {1}
  /\ subscribers = {1, 2}
  /\ available_events["overheated"] = {1, 2}
  /\ conn[1] = "closed" /\ conn[2] = "open"
  /\ objs[resp.id].status = "completed"
  /\ Len(inbox[2]) >= 4
  /\ SubSeq(inbox[2], Len(inbox[2]) - 3, Len(inbox[2]))
       = <<ActionStatus([objs[resp.id] EXCEPT !.status = "pending",
                                              !.time_completed = NoTime]),
           PropertyStatus("level", JInt(10)),
           EventMessage(events[Len(events)]),
           ActionStatus(objs[resp.id])>>

(***************************************************************************)
(* C11                                                                     *)
(***************************************************************************)
C11_Step ==
  (/\ resp'.op \in {"set_property", "put"}
   /\ resp'.name \in PropNames
   /\ resp'.code \in {"", "200"}
   /\ last_value'[resp'.name] # last_value[resp'.name]) =>
    /\ last_value'[resp'.name] = resp'.value
    /\ dropped' \subseteq subscribers
    /\ \A ws \in Handles :
         inbox'[ws] = IF ws \in subscribers /\ ws \notin dropped'
                        THEN Append(inbox[ws],
                                    PropertyStatus(resp'.name, resp'.value))
                        ELSE inbox[ws]
    /\ \A ws \in subscribers : ws \in dropped' <=> conn[ws] # "open"

\* C11: a write through Thing.set_property or REST PUT that succeeds and
\* changes the cached value writes, within the same call, one propertyStatus
\* with the name and the new value to every websocket of Thing.subscribers and
\* to no other; the write to a subscriber whose channel is gone raises and is
\* dropped, every other subscriber has the message once.
C11_OnePerSubscriber == [][C11_Step]_vars

C11_SubscriberAndStranger ==
  /\ resp.op = "put" /\ resp.code = "200"
  /\ resp.name = "level" /\ resp.value = JInt(10)
  /\ conn[1] = "gone" /\ Listening(2)
  /\ inbox[1] = <<>>
  /\ inbox[2] = <<PropertyStatus("level", JInt(10))>>

(***************************************************************************)
(* C12                                                                     *)
(***************************************************************************)
\* remove_subscriber has run for the websocket, which cannot subscribe again
Removed(ws) == conn[ws] = "gone"

C12_Unsubscribed ==
  \A ws \in Handles :
    Removed(ws) =>
      /\ ws \notin subscribers
      /\ \A name \in DOMAIN available_events : ws \notin available_events[name]

C12_Step ==
  \A ws \in Handles :
    Removed(ws) => inbox'[ws] = inbox[ws] /\ ws \notin dropped'

\* C12: once on_close has called remove_subscriber for a websocket, it is in
\* neither Thing.subscribers nor the subscribers of any event, and no later
\* property write, action request, action run or event writes anything to it
\* or even tries to.
C12_RemovedIsSilent == []C12_Unsubscribed /\ [][C12_Step]_vars

C12_EventAfterRemoval ==
  /\ resp.op = "add_event" /\ Len(events) = 2
  /\ Removed(1)
  /\ inbox[1] = <<EventMessage(events[1])>>
  /\ Listening(2)
  /\ inbox[2] = <<EventMessage(events[1]), EventMessage(events[2])>>

(***************************************************************************)
(* C13                                                                     *)
(***************************************************************************)
\* actions[name] holds a record of that name with that id
Listed(name, id) == name \in DOMAIN actions /\ id \in Range(actions[name])

C13_Lists ==
  \A name \in DOMAIN actions :
    \A i \in 1..Len(actions[name]) :
      /\ objs[actions[name][i]].name = name
      /\ objs[actions[name][i]].id = actions[name][i]
      /\ \A j \in 1..Len(actions[name]) : actions[name][i] = actions[name][j] => i = j

C13_Step ==
  resp'.op = "delete" =>
    LET name == resp'.name
        id == resp'.id
    IN IF Listed(name, id)
         THEN /\ resp'.code = "204"
              /\ cancelled' = cancelled \cup {id}
              /\ actions' = [actions EXCEPT
                               ![name] = SelectSeq(@, LAMBDA x : x # id)]
              /\ id \notin Range(actions'[name])
              /\ UNCHANGED <<objs, ioloop, next_id, last_value, events, inbox>>
         ELSE /\ resp'.code = "404"
              /\ UNCHANGED <<actions, cancelled, objs, ioloop, next_id,
                             last_value, events, inbox>>

\* C13: remove_action(name, id) answers True (204 to the DELETE) exactly when
\* actions[name] holds a record of that name and id; then cancel is called on
\* that record and that record alone leaves the list, the other records of
\* every name staying in place and in order; otherwise it answers False (404)
\* and changes nothing.
C13_RemoveExactlyOne == []C13_Lists /\ [][C13_Step]_vars

C13_SecondRemoved ==
  /\ resp.op = "delete" /\ resp.code = "204"
  /\ resp.name = "fade" /\ resp.id = 2
  /\ actions["fade"] = <<1>>
  /\ cancelled = {2}

(***************************************************************************)
(* C14                                                                     *)
(***************************************************************************)
C14_Step ==
  \A id \in cancelled :
    /\ objs[id].status # "completed" =>
         /\ ~(resp'.op = "start" /\ resp'.id = id)
         /\ objs'[id].status = objs[id].status
         /\ \A ws \in Handles :
              StatusesSeen(inbox'[ws], id) = StatusesSeen(inbox[ws], id)
    /\ objs[id].status = "completed" => objs'[id] = objs[id]

\* C14: an action whose cancel was called before it completed is not started
\* afterwards, its status makes no step to pending or completed and no
\* actionStatus about it is sent; an action that had completed when its
\* cancel was called stays as it is.
C14_CancelStops == [][C14_Step]_vars

(***************************************************************************)
(* C15: in every state the registrations, set_href_prefix and              *)
(* perform_action reach, the href of every property, action kind, event    *)
(* kind and listed Action is the Thing's current href_prefix followed by   *)
(* the path of the resource, so the prefix is there exactly once.          *)
(***************************************************************************)
C15_HrefsPrefixedOnce ==
  /\ \A name \in DOMAIN hrefs.properties :
       Property_get_href(hrefs.properties[name]) = href_prefix \o <<"properties", name>>
  /\ \A name \in DOMAIN hrefs.available_actions :
       hrefs.available_actions[name] = href_prefix \o <<"actions", name>>
  /\ \A name \in DOMAIN hrefs.available_events :
       hrefs.available_events[name] = href_prefix \o <<"events", name>>
  /\ \A name \in DOMAIN actions : \A id \in Range(actions[name]) :
       Action_get_href(objs[id]) = href_prefix \o <<"actions", name, id>>

(***************************************************************************)
(* C16: MultipleThings.get_thing of an identifier that writes an integer i *)
(* with 0 <= i < n returns the Thing at index i of the n Things, and of    *)
(* any other identifier (out of range, negative, not a number) None.       *)
(***************************************************************************)
Writes(thing_id, i) == int(thing_id).ok /\ int(thing_id).n = i

C16_Step ==
  (resp'.op = "get_thing" /\ things.kind = "multiple") =>
    LET n == Len(things.things)
    IN /\ things' = things
       /\ \A i \in 0..(n - 1) :
            Writes(resp'.thing_id, i) => resp'.thing = things.things[i + 1]
       /\ (~\E i \in 0..(n - 1) : Writes(resp'.thing_id, i)) => resp'.thing = NoThing

C16_IndexOrNone == [][C16_Step]_vars

C16_SecondOfThree ==
  /\ resp.op = "get_thing"
  /\ things = MultipleThings(<<"thing0", "thing1", "thing2">>)
  /\ resp.thing_id = <<"1">>
  /\ resp.thing = "thing1"

(***************************************************************************)
(* C17: SingleThing.get_thing returns the one Thing of the container for   *)
(* every identifier, and for no identifier at all.                         *)
(***************************************************************************)
C17_Step ==
  (resp'.op = "get_thing" /\ things.kind = "single") =>
    /\ things' = things
    /\ resp'.thing = things.things[1]
    /\ resp'.thing # NoThing

C17_AlwaysTheThing == [][C17_Step]_vars

C17_OutOfRangeResolved ==
  /\ resp.op = "get_thing"
  /\ things.kind = "single"
  /\ resp.thing_id = <<"5">>
  /\ resp.thing = "thing0"

(***************************************************************************)
(* C18: a propertyStatus is delivered with the value get_property returns  *)
(* at that moment, and for a websocket that has been sent every            *)
(* notification since it opened, the latest propertyStatus of a property   *)
(* carries the value a REST GET returns, however REST writes, streaming    *)
(* writes, sensor readings and action bodies interleave.                   *)
(***************************************************************************)
\* the propertyStatus messages of one property a websocket was sent
StatusesOf(box, name) ==
  SelectSeq(box, LAMBDA m : m.messageType = "propertyStatus" /\ m.name = name)

C18_Latest ==
  \A ws \in Handles : conn[ws] = "open" =>
    \A name \in PropNames :
      LET seen == StatusesOf(inbox[ws], name)
      IN seen # <<>> => seen[Len(seen)].value = last_value[name]

C18_Step ==
  \A ws \in Handles :
    /\ Len(inbox'[ws]) >= Len(inbox[ws])
    /\ \A i \in (Len(inbox[ws]) + 1)..Len(inbox'[ws]) :
         LET m == inbox'[ws][i]
         IN m.messageType = "propertyStatus" => m.value = last_value'[m.name]

C18_StreamMatchesRest == []C18_Latest /\ [][C18_Step]_vars

C18_PutThenFade ==
  /\ resp.op = "start"
  /\ conn[1] = "open"
  /\ StatusesOf(inbox[1], "level") =
       <<PropertyStatus("level", JInt(10)), PropertyStatus("level", JInt(50))>>
  /\ last_value["level"] = JInt(50)

(***************************************************************************)
(* C19: when a request for an action succeeds (POST on /actions or on      *)
(* /actions/<name>, or a requestAction message), the handler returns with  *)
(* the new Action in status 'created', listed among the Thing's actions    *)
(* and handed to the IO loop as a callback of its own: its body has not    *)
(* run, so no property and no event has changed and nobody was told more   *)
(* than 'created'.                                                         *)
(***************************************************************************)
C19_Step ==
  (resp'.op \in {"post", "requestAction"}) =>
    /\ (resp'.op = "post" /\ resp'.code = "201") =>
         /\ resp'.body.status = "created"
         /\ resp'.body.id \in Constructed
         /\ resp'.body.name = resp'.name
    /\ \A id \in Constructed :
         /\ objs'[id].status = "created"
         /\ objs'[id].time_completed = NoTime
         /\ id \in Range(actions'[objs'[id].name])
         /\ id \in Range(ioloop') /\ id \notin Range(ioloop)
         /\ \A ws \in Handles : Listening(ws) =>
              StatusesSeen(inbox'[ws], id) = <<"created">>
    /\ last_value' = last_value
    /\ events' = events
    /\ \A id \in DOMAIN objs : objs'[id] = objs[id]

C19_CreatedAndQueued == [][C19_Step]_vars

C19_PostAnswered ==
  /\ resp.op = "post"
  /\ resp.code = "201"
  /\ resp.body.status = "created"
  /\ Listening(1)
  /\ ioloop = <<1>>
  /\ actions["fade"] = <<1>>
  /\ objs[1].status = "created"

(***************************************************************************)
(* C20: the status of every Action is created, pending or completed; a     *)
(* step never takes it back to an earlier one; and time_completed is null  *)
(* exactly while the status is not completed.                              *)
(***************************************************************************)
StatusOrder == <<"created", "pending", "completed">>

\* where a status stands in the order of the life of an Action
StatusRank(status) == CHOOSE i \in 1..Len(StatusOrder) : StatusOrder[i] = status

C20_Statuses ==
  \A id \in DOMAIN objs :
    /\ objs[id].status \in Range(StatusOrder)
    /\ objs[id].time_completed = NoTime <=> objs[id].status # "completed"

C20_Step ==
  \A id \in DOMAIN objs :
    /\ id \in DOMAIN objs'
    /\ StatusRank(objs[id].status) <= StatusRank(objs'[id].status)

C20_StatusForward == []C20_Statuses /\ [][C20_Step]_vars

C20_OneDoneOneWaiting ==
  /\ DOMAIN objs = {1, 2}
  /\ objs[1].status = "completed" /\ objs[1].time_completed # NoTime
  /\ objs[2].status = "created" /\ objs[2].time_completed = NoTime

(***************************************************************************)
(* C21: an Action stays in the Thing's list of its name, where get_action  *)
(* finds it, through every step but the remove_action of its own name and  *)
(* id: completing it, creating other actions and add_available_action      *)
(* leave it listed.                                                        *)
(***************************************************************************)
C21_Step ==
  \A name \in DOMAIN actions : \A id \in Range(actions[name]) :
    \/ resp'.op = "delete" /\ resp'.name = name /\ resp'.id = id
    \/ /\ name \in DOMAIN actions'
       /\ id \in Range(actions'[name])

C21_ListedUntilRemoved == [][C21_Step]_vars

(***************************************************************************)
(* C22: the accepted writes of one property are applied in the order of    *)
(* the requests. As stated: after each accepted write of v the cached      *)
(* value is v, and a websocket that listens is sent propertyStatus v       *)
(* unless v equals the value cached before. As amended below: a null       *)
(* write passes the validation of a property without a type, is applied    *)
(* to nothing and is told to nobody; every other write is as stated.       *)
(***************************************************************************)
\* the property and the value a write request names
WrittenName(r) == IF r.op = "setProperty" THEN r.data[1][1] ELSE r.name
WrittenValue(r) == IF r.op = "setProperty" THEN r.data[1][2] ELSE r.value

\* the request was a write of one property that passed validation and
\* returned normally
AcceptedWrite(r) ==
  /\ r.op \in {"put", "set_property", "setProperty"}
  /\ r.op = "setProperty" => Len(r.data) = 1
  /\ WrittenName(r) \in AllPropNames
  /\ validate_value(metadata(WrittenName(r)), WrittenValue(r)) = ""
  /\ r.code \in {"", "200"}

\* the step appends to what a listening websocket was told of the property
\* the statuses told, and nothing else
ToldInOrder(name, told) ==
  \A ws \in Handles : Listening(ws) =>
    StatusesOf(inbox'[ws], name) = StatusesOf(inbox[ws], name) \o told

C22_Step ==
  AcceptedWrite(resp') =>
    LET name == WrittenName(resp')
        value == WrittenValue(resp')
    IN /\ PyEq(last_value'[name], value)
       /\ ToldInOrder(name, IF PyEq(value, last_value[name]) THEN <<>>
                            ELSE <<PropertyStatus(name, value)>>)

C22_InRequestOrder == [][C22_Step]_vars

C22_AmendedStep ==
  AcceptedWrite(resp') =>
    LET name == WrittenName(resp')
        value == WrittenValue(resp')
    IN IF value = JNull \/ PyEq(value, last_value[name])
         THEN last_value' = last_value /\ ToldInOrder(name, <<>>)
         ELSE /\ last_value' = [last_value EXCEPT ![name] = value]
              /\ ToldInOrder(name, <<PropertyStatus(name, value)>>)

C22_NonNullInRequestOrder == [][C22_AmendedStep]_vars

C22_TwoWritesTold ==
  /\ resp.op = "put" /\ resp.code = "200" /\ resp.name = "note"
  /\ Listening(1)
  /\ StatusesOf(inbox[1], "note") =
       <<PropertyStatus("note", JInt(10)), PropertyStatus("note", JInt(50))>>
  /\ last_value["note"] = JInt(50)

(***************************************************************************)
(* C23: Property.set_value accepts a value exactly when it matches the     *)
(* declared type tag (a null value for the type 'null'), the property is   *)
(* not readOnly, the value is within minimum and maximum and is a member   *)
(* of a non-empty enum; a rejected write signals PropertyError and leaves  *)
(* the cached value as it was.                                             *)
(***************************************************************************)
\* the value is of the type the tag names
MatchesTag(type, value) ==
  CASE type = "null" -> value = JNull
    [] type = "boolean" -> value.t = "bool"
    [] type = "object" -> value.t = "object"
    [] type = "array" -> value.t = "array"
    [] type = "number" -> value.t \in {"float", "int"}
    [] type = "integer" -> value.t = "int"
    [] type = "string" -> value.t = "str"
    [] OTHER -> TRUE

PassesMetadata(md, value) ==
  /\ md.hasType => MatchesTag(md.type, value)
  /\ ~md.readOnly
  /\ md.hasMin => Comparable(value) /\ NumOf(value) >= md.minimum
  /\ md.hasMax => Comparable(value) /\ NumOf(value) <= md.maximum
  /\ md.enum # {} => value \in md.enum

C23_Step ==
  (/\ resp'.op \in {"put", "set_property"}
   /\ resp'.name \in AllPropNames
   /\ resp'.op = "set_property" => resp'.device = "ok") =>
    IF PassesMetadata(metadata(resp'.name), resp'.value)
      THEN resp'.code \in {"", "200"}
      ELSE /\ resp'.code \in {"PropertyError", "400"}
           /\ last_value' = last_value
           /\ inbox' = inbox

C23_AcceptsWhatPasses == [][C23_Step]_vars

(***************************************************************************)
(* C24: when the forwarder of a Value fails in Value.set(v), the failure   *)
(* reaches the caller, the cached value stays and no propertyStatus is     *)
(* sent.                                                                   *)
(***************************************************************************)
C24_Step ==
  (/\ resp'.op = "set_property"
   /\ resp'.device = "fails"
   /\ HasForwarder(resp'.name)
   /\ validate_value(metadata(resp'.name), resp'.value) = "") =>
    /\ resp'.code = "Exception"
    /\ last_value' = last_value
    /\ inbox' = inbox

C24_FailedForwarderAborts == [][C24_Step]_vars

C24_RefusedByDevice ==
  /\ resp.op = "set_property" /\ resp.device = "fails" /\ resp.code = "Exception"
  /\ resp.name = "note" /\ resp.value = JInt(10)
  /\ Listening(1)
  /\ last_value["note"] = JInt(0)
  /\ inbox[1] = <<>>

(***************************************************************************)
(* C25: an unsubscribe that happens while a fan-out is in progress does    *)
(* not abort the delivery loop: the loop ends without an error and every   *)
(* handle that was in the audience when it started and is still            *)
(* subscribed has been handed the message.                                 *)
(***************************************************************************)
C25_Step ==
  (/\ resp'.op = "external_update_leaving"
   /\ last_value'[resp'.name] # last_value[resp'.name]) =>
    /\ resp'.code = ""
    /\ \A ws \in subscribers :
         ws \in subscribers' /\ conn[ws] = "open" =>
           inbox'[ws] = Append(inbox[ws], PropertyStatus(resp'.name, resp'.value))

C25_LoopSurvivesUnsubscribe == [][C25_Step]_vars

(***************************************************************************)
(* C26: Value.notify_of_external_update(v) and Value.set(v) change nothing *)
(* and notify nobody when v is null or equals the cached value, and        *)
(* otherwise store v and emit one change notification, which every         *)
(* listening websocket gets as one propertyStatus; so a Value constructed  *)
(* with a value that is not null never holds null.                         *)
(***************************************************************************)
\* the step called Value.set or Value.notify_of_external_update with a value
\* and the call returned normally
ValueCalled(r) ==
  \/ r.op = "external_update"
  \/ AcceptedWrite(r) /\ (r.op = "set_property" => r.code = "")

C26_NeverNull ==
  \A name \in AllPropNames : InitialValue(name) # JNull => last_value[name] # JNull

C26_Step ==
  ValueCalled(resp') =>
    LET name == WrittenName(resp')
        value == WrittenValue(resp')
    IN IF value = JNull \/ PyEq(value, last_value[name])
         THEN last_value' = last_value /\ inbox' = inbox
         ELSE /\ last_value' = [last_value EXCEPT ![name] = value]
              /\ \A ws \in Handles :
                   inbox'[ws] = IF Listening(ws)
                                  THEN Append(inbox[ws], PropertyStatus(name, value))
                                  ELSE inbox[ws]

C26_NullAndEqualIgnored == []C26_NeverNull /\ [][C26_Step]_vars

C26_NullReadingIgnored ==
  /\ resp.op = "external_update" /\ resp.name = "note" /\ resp.value = JNull
  /\ Listening(1)
  /\ last_value["note"] = JInt(10)
  /\ inbox[1] = <<PropertyStatus("note", JInt(10))>>

(***************************************************************************)
(* C27: when the IO loop runs the callbacks it was handed, every Action    *)
(* that a request handler created and whose work body returns normally     *)
(* eventually has status completed and a time_completed, and the websockets*)
(* that were told of it were told 'completed' last.                        *)
(***************************************************************************)
\* the ids the requests of a behaviour can give out
ActionIds == 1..MaxRequests

\* the work body of the Action returns normally: FadeAction reads both keys
\* of its input and sets level to a value the property accepts
BodyReturns(id) ==
  LET input == objs[id].input
  IN /\ input.t = "object"
     /\ input.duration # Absent /\ input.level # Absent
     /\ validate_value(metadata("level"), input.level) = ""

Completed(id) ==
  /\ objs[id].status = "completed"
  /\ objs[id].time_completed # NoTime
  /\ \A ws \in Handles :
       LET seen == StatusesSeen(inbox[ws], id)
       IN Listening(ws) /\ seen # <<>> => seen[Len(seen)] = "completed"

C27_EventuallyCompleted ==
  \A id \in ActionIds :
    (id \in DOMAIN objs /\ BodyReturns(id)) ~> (id \in DOMAIN objs /\ Completed(id))

C27_RanToCompletion ==
  /\ resp.op = "start" /\ resp.code = "" /\ resp.id = 2
  /\ DOMAIN objs = {1, 2}
  /\ Completed(1) /\ Completed(2)
  /\ ioloop = <<>>

(***************************************************************************)
(* C28: Thing.add_event of an event whose name is no registered event kind *)
(* appends the event to the log, where get_event_descriptions returns it,  *)
(* and writes to no websocket, whatever it subscribed to.                  *)
(***************************************************************************)
C28_Step ==
  (resp'.op = "add_event" /\ resp'.event.name \notin DOMAIN available_events) =>
    /\ events' = Append(events, resp'.event)
    /\ get_event_descriptions(events', "")[Len(events')] = as_event_description(resp'.event)
    /\ get_event_descriptions(events', resp'.event.name) # <<>>
    /\ inbox' = inbox
    /\ dropped' = {}

C28_UnregisteredLoggedOnly == [][C28_Step]_vars

C28_UnknownLogged ==
  /\ resp.op = "add_event" /\ resp.event.name = "unknown"
  /\ Listening(1) /\ 1 \in available_events["overheated"]
  /\ events = <<resp.event>>
  /\ inbox[1] = <<>>

(***************************************************************************)
(* C29: the forwarder of a Value is called once, before the cache is       *)
(* touched, in every Value.set that validation let through, also when the  *)
(* value equals the cached one or is null; it is called neither for a      *)
(* rejected write nor by notify_of_external_update.                        *)
(***************************************************************************)
\* the request was a write of one property of the Thing
WriteOfOne(r) ==
  /\ r.op \in {"put", "set_property", "setProperty"}
  /\ r.op = "setProperty" => Len(r.data) = 1
  /\ WrittenName(r) \in AllPropNames

C29_Step ==
  /\ resp'.op = "external_update" => forwarded' = forwarded
  /\ WriteOfOne(resp') =>
       LET name == WrittenName(resp')
           value == WrittenValue(resp')
       IN IF HasForwarder(name) /\ validate_value(metadata(name), value) = ""
            THEN /\ forwarded' = Append(forwarded, <<name, value>>)
                 /\ (resp'.op = "set_property" /\ resp'.device = "fails") =>
                      last_value' = last_value
            ELSE forwarded' = forwarded

C29_ForwardedOnce == [][C29_Step]_vars

C29_NullForwarded ==
  /\ resp.op = "put" /\ resp.code = "200"
  /\ resp.name = "note" /\ resp.value = JNull
  /\ forwarded = <<<<"note", JInt(0)>>, <<"note", JNull>>>>
  /\ last_value["note"] = JInt(0)
  /\ Listening(1) /\ inbox[1] = <<>>

(***************************************************************************)
(* C30: when the work body raises in Action.start, finish is not called:   *)
(* the Action is left 'pending' with time_completed null, its subscribers  *)
(* were told 'pending' and are told nothing more of it, and it stays in    *)
(* the list of its name until remove_action takes it out.                  *)
(***************************************************************************)
C30_Step ==
  /\ (resp'.op = "start" /\ resp'.code # "") =>
       /\ objs'[resp'.id].status = "pending"
       /\ objs'[resp'.id].time_completed = NoTime
       /\ actions' = actions
       /\ \A ws \in Handles :
            Listening(ws) =>
              StatusesSeen(inbox'[ws], resp'.id)
                = Append(StatusesSeen(inbox[ws], resp'.id), "pending")
       /\ \A ws \in Handles : \A i \in (Len(inbox[ws]) + 1)..Len(inbox'[ws]) :
            inbox'[ws][i].messageType # "error"
  /\ \A id \in DOMAIN objs :
       objs[id].status = "pending" =>
         /\ objs'[id] = objs[id]
         /\ \A ws \in Handles :
              StatusesSeen(inbox'[ws], id) = StatusesSeen(inbox[ws], id)
         /\ Listed(objs[id].name, id) =>
              \/ id \in Range(actions'[objs[id].name])
              \/ resp'.op = "delete" /\ resp'.name = objs[id].name /\ resp'.id = id

C30_RaisedStaysPending == [][C30_Step]_vars

C30_PendingAfterLaterRequest ==
  /\ resp.op = "post" /\ resp.code = "201"
  /\ DOMAIN objs = {1, 2}
  /\ objs[1].status = "pending" /\ objs[1].time_completed = NoTime
  /\ ioloop = <<2>>
  /\ actions["fade"] = <<1, 2>>
  /\ Listening(1)
  /\ StatusesSeen(inbox[1], 1) = <<"created", "pending">>

(***************************************************************************)
(* C31: a streaming setProperty message answers every write that           *)
(* validation rejects with one error message ('400 Bad Request' and the    *)
(* reason) to the requesting socket alone, leaves the value of that        *)
(* property as it was and tells nobody a propertyStatus for it; the other  *)
(* writes of the message are carried out on their own: an accepted one is  *)
(* stored and told to the listeners, whether it comes before or after the  *)
(* rejected one.                                                           *)
(***************************************************************************)
\* the reason validation gives against a write, "" when it gives none
Rejection(pair) ==
  IF pair[1] \in AllPropNames THEN validate_value(metadata(pair[1]), pair[2])
  ELSE ""

\* what websocket h is to receive for the writes of data, sent by requester
RECURSIVE DueFor(_, _, _)
DueFor(h, requester, data) ==
  IF data = <<>> THEN <<>>
  ELSE LET name == data[1][1]
           value == data[1][2]
           due == IF Rejection(data[1]) # ""
                    THEN IF h = requester
                           THEN <<ErrorMessage(Rejection(data[1]))>> ELSE <<>>
                  ELSE IF /\ name \in AllPropNames
                          /\ value # JNull
                          /\ ~PyEq(value, last_value[name])
                          /\ Listening(h)
                    THEN <<PropertyStatus(name, value)>>
                  ELSE <<>>
       IN due \o DueFor(h, requester, Tail(data))

C31_Step ==
  resp'.op = "setProperty" =>
    LET data == resp'.data
    IN /\ resp'.code = ""
       /\ \A h \in Handles :
            inbox'[h] = inbox[h] \o DueFor(h, resp'.ws, data)
       /\ \A i \in 1..Len(data) :
            LET name == data[i][1]
                value == data[i][2]
            IN name \in AllPropNames =>
                 IF Rejection(data[i]) # ""
                   THEN last_value'[name] = last_value[name]
                   ELSE value # JNull => PyEq(last_value'[name], value)

C31_RejectedAlone == [][C31_Step]_vars

\* a message whose first write was rejected and whose second was stored and
\* told to both listeners, the error going to the sender only
C31_OneRejectedOneStored ==
  /\ resp.op = "setProperty"
  /\ resp.ws = 1
  /\ resp.data = <<<<"level", JInt(101)>>, <<"on", JBool(FALSE)>>>>
  /\ last_value["level"] = JInt(50)
  /\ last_value["on"] = JBool(FALSE)
  /\ inbox[1] = <<ErrorMessage("Value greater than maximum"),
                  PropertyStatus("on", JBool(FALSE))>>
  /\ inbox[2] = <<PropertyStatus("on", JBool(FALSE))>>

(***************************************************************************)
(* C32: in every reachable state the list actions[name] holds only Action  *)
(* records whose own name is name, and no two entries of one list carry    *)
(* the same id, so that get_action(name, id) names at most one record.     *)
(***************************************************************************)
\* the places of actions[name] whose record carries that id
PlacesOf(name, id) ==
  {i \in 1..Len(actions[name]) : objs[actions[name][i]].id = id}

SentTo(ws) == SubSeq(inbox'[ws], Len(inbox[ws]) + 1, Len(inbox'[ws]))

IsStatus(m, status) == m.messageType = "actionStatus" /\ m.status = status

\* message i of sent opens a block that its own 'completed' closes, with no
\* status of any action in between
BlockFrom(sent, i) ==
  \E j \in (i + 1)..Len(sent) :
    /\ IsStatus(sent[j], "completed") /\ sent[j].id = sent[i].id
    /\ \A k \in (i + 1)..(j - 1) : sent[k].messageType # "actionStatus"

C33_Step ==
  /\ (resp'.op = "get" /\ resp'.code = "200") => resp'.body.status # "pending"
  /\ \A ws \in Handles : Len(inbox'[ws]) >= Len(inbox[ws])
  /\ \A ws \in Handles : \A i \in 1..Len(SentTo(ws)) :
       /\ IsStatus(SentTo(ws)[i], "pending") =>
            resp'.op = "start" /\ BlockFrom(SentTo(ws), i)
       /\ IsStatus(SentTo(ws)[i], "completed") =>
            \E h \in 1..(i - 1) :
              /\ IsStatus(SentTo(ws)[h], "pending")
              /\ SentTo(ws)[h].id = SentTo(ws)[i].id

C33_NeverSeenPending == [][C33_Step]_vars

C33_AmendedStep ==
  /\ (resp'.op = "get" /\ resp'.code = "200" /\ BodyReturns(resp'.id)) =>
       resp'.body.status # "pending"
  /\ \A ws \in Handles : Len(inbox'[ws]) >= Len(inbox[ws])
  /\ \A ws \in Handles : \A i \in 1..Len(SentTo(ws)) :
       /\ IsStatus(SentTo(ws)[i], "pending") =>
            /\ resp'.op = "start" /\ resp'.id = SentTo(ws)[i].id
            /\ IF BodyReturns(resp'.id)
                 THEN BlockFrom(SentTo(ws), i)
                 ELSE \A k \in (i + 1)..Len(SentTo(ws)) :
                        SentTo(ws)[k].messageType # "actionStatus"
       /\ IsStatus(SentTo(ws)[i], "completed") =>
            \E h \in 1..(i - 1) :
              /\ IsStatus(SentTo(ws)[h], "pending")
              /\ SentTo(ws)[h].id = SentTo(ws)[i].id

C33_ReturningNeverSeenPending == [][C33_AmendedStep]_vars

\* a query answered 'completed' after the websocket was told the whole block
\* of the action: pending, what its body did, completed
C33_BlockThenQuery ==
  /\ resp.op = "get" /\ resp.code = "200" /\ resp.id = 1
  /\ resp.body.status = "completed"
  /\ BodyReturns(1)
  /\ Listening(1)
  /\ Len(inbox[1]) = 5
  /\ IsStatus(inbox[1][1], "created")
  /\ IsStatus(inbox[1][2], "pending")
  /\ inbox[1][3] = PropertyStatus("level", JInt(10))
  /\ inbox[1][4].messageType = "event"
  /\ IsStatus(inbox[1][5], "completed")

(***************************************************************************)
(* C34: actions are started in the order in which their requests were      *)
(* accepted; a requestAction message that names several actions sends the  *)
(* 'created' of every action it accepts before any of them is 'pending';   *)
(* and an action of the message that is not accepted sends an error to the *)
(* requester and does not keep the others from being accepted.             *)
(***************************************************************************)
\* the request of the action named by pair is accepted by perform_action
Accepted(pair) ==
  /\ pair[1] \in available_actions
  /\ HasInputSchema(pair[1]) => validate(pair[2], pair[1])

\* the ids the message gives to the actions it accepts, in its own order
RECURSIVE IdsGiven(_, _)
IdsGiven(data, first) ==
  IF data = <<>> THEN <<>>
  ELSE IF Accepted(data[1]) THEN <<first>> \o IdsGiven(Tail(data), first + 1)
  ELSE IdsGiven(Tail(data), first)

C34_Step ==
  /\ resp'.op = "start" =>
       /\ objs[resp'.id].status = "created"
       /\ \A id \in DOMAIN objs : id < resp'.id => objs[id].status # "created"
  /\ resp'.op = "post" =>
       ioloop' = ioloop \o IdsGiven(<<<<resp'.name, resp'.input>>>>, next_id)
  /\ resp'.op = "requestAction" =>
       LET data == resp'.data
           given == IdsGiven(data, next_id)
       IN /\ ioloop' = ioloop \o given
          /\ Constructed = Range(given)
          /\ \A i \in 1..Len(data) : Accepted(data[i]) =>
               \E id \in Constructed : objs'[id].name = data[i][1]
                                         /\ objs'[id].input = data[i][2]
          /\ \A id \in DOMAIN objs' :
               objs'[id].status = "pending" => id \in DOMAIN objs /\ objs[id].status = "pending"
          /\ \A ws \in Handles :
               LET sent == SentTo(ws)
                   told == SelectSeq(sent, LAMBDA m : m.messageType = "actionStatus")
                   errors == SelectSeq(sent, LAMBDA m : m.messageType = "error")
               IN /\ Listening(ws) =>
                       /\ Len(told) = Len(given)
                       /\ \A i \in 1..Len(told) :
                            told[i].id = given[i] /\ told[i].status = "created"
                  /\ Len(errors) =
                       IF ws = resp'.ws
                         THEN Cardinality({i \in 1..Len(data) : ~Accepted(data[i])})
                         ELSE 0

C34_StartedInRequestOrder == [][C34_Step]_vars

\* one message whose two actions were accepted: both are told 'created' and
\* wait on the IO loop in the order of the message
C34_TwoAcceptedInOneMessage ==
  /\ resp.op = "requestAction" /\ Len(resp.data) = 2
  /\ resp.data[1][1] = "fade"
  /\ DOMAIN objs = {1, 2}
  /\ objs[1].name = "fade" /\ objs[2].name = "toggle"
  /\ objs[1].status = "created" /\ objs[2].status = "created"
  /\ ioloop = <<1, 2>>
  /\ Listening(1)
  /\ StatusesSeen(inbox[1], 1) = <<"created">>
  /\ StatusesSeen(inbox[1], 2) = <<"created">>

(***************************************************************************)
(* C35: for the websockets ThingHandler manages, the subscribers of every  *)
(* event kind are always among the subscribers of the Thing: a websocket   *)
(* is a subscriber of the Thing before it subscribes to an event kind, and *)
(* the close that takes it from the Thing takes it from every event kind.  *)
(***************************************************************************)
C35_Subset ==
  \A name \in DOMAIN available_events : available_events[name] \subseteq subscribers

C35_Step ==
  \A ws \in Handles :
    /\ \A name \in DOMAIN available_events' :
         (ws \in available_events'[name]
            /\ (name \in DOMAIN available_events => ws \notin available_events[name]))
         => ws \in subscribers /\ ws \in subscribers'
    /\ (ws \in subscribers /\ ws \notin subscribers') =>
         /\ resp'.op = "on_close"
         /\ \A name \in DOMAIN available_events' : ws \notin available_events'[name]
    /\ (ws \notin subscribers /\ ws \in subscribers') =>
         /\ resp'.op = "open"
         /\ \A name \in DOMAIN available_events' : ws \notin available_events'[name]

C35_EventSubscribersSubscribe == []C35_Subset /\ [][C35_Step]_vars

\* websocket 1 subscribed to two event kinds and was closed, websocket 2
\* subscribes still
C35_OneLeftOneStays ==
  /\ resp.op = "on_close"
  /\ conn[1] = "gone" /\ 1 \notin subscribers
  /\ inbox[1] = <<EventMessage(Event("overheated", JInt(OverheatedData), 0)),
                  EventMessage(Event("lowbattery", JNull, 0))>>
  /\ available_events["overheated"] = {2}
  /\ available_events["lowbattery"] = {}
  /\ subscribers = {2}

(***************************************************************************)
(* C36: a handle that add_event_subscriber put among the subscribers of a  *)
(* registered event kind stays there, and is sent the events of that name, *)
(* through every step but the remove_subscriber of that handle (the        *)
(* websockets of the model never call remove_event_subscriber); a second   *)
(* add_available_event of the kind does not drop it. add_event_subscriber  *)
(* for a name that is not registered changes nothing.                      *)
(***************************************************************************)
C36_Step ==
  /\ \A name \in DOMAIN available_events : \A ws \in available_events[name] :
       /\ \/ name \in DOMAIN available_events' /\ ws \in available_events'[name]
          \/ resp'.op = "on_close" /\ ws \notin subscribers'
       /\ (resp'.op = "add_event" /\ resp'.event.name = name /\ conn[ws] = "open") =>
            inbox'[ws] = Append(inbox[ws], EventMessage(resp'.event))
  /\ (resp'.op = "addEventSubscription" /\ resp'.name \notin DOMAIN available_events) =>
       UNCHANGED <<available_events, subscribers, inbox, events, hrefs>>

C36_SubscribedUntilRemoved == [][C36_Step]_vars

(***************************************************************************)
(* C37: once WebThingServer is constructed over a MultipleThings, for      *)
(* every index i of the list get_thing(i) is the Thing whose href_prefix   *)
(* is base_path + '/' + i; so the Things of the list have prefixes that    *)
(* differ, and the index read from a Thing's href resolves to that Thing.  *)
(***************************************************************************)
C37_Agree ==
  (server.constructed /\ things.kind = "multiple") =>
    LET list == things.things
    IN /\ \A i \in 0..(Len(list) - 1) :
            /\ MultipleThings_get_thing(things, str(i)) = list[i + 1]
            /\ server.href_prefix[list[i + 1]] = server.base_path \o <<"/">> \o str(i)
       /\ \A i, j \in 1..Len(list) :
            i # j => server.href_prefix[list[i]] # server.href_prefix[list[j]]
       /\ \A i \in 1..Len(list) :
            LET route == ThingRoute(server.base_path, server.href_prefix[list[i]])
            IN route.ok /\ MultipleThings_get_thing(things, route.thing_id) = list[i]

C37_Step ==
  (server.constructed /\ things.kind = "multiple") =>
    /\ resp'.op = "route" =>
         \A i \in 1..Len(things.things) :
           resp'.path = server.href_prefix[things.things[i]] =>
             resp'.thing = things.things[i]
    /\ (resp'.op = "get_thing" /\ resp'.thing # NoThing) =>
         server.href_prefix[resp'.thing]
           = server.base_path \o <<"/">> \o str(int(resp'.thing_id).n)

C37_HrefsAddress == []C37_Agree /\ [][C37_Step]_vars

\* the eleventh Thing of a server with base path '/a/' is reached by its href
C37_EleventhByHref ==
  /\ resp.op = "route" /\ resp.code = "200"
  /\ resp.path = <<"/", "a", "/", "1", "0">>
  /\ resp.thing = "thing10"
  /\ server.constructed /\ server.base_path = <<"/", "a">>
  /\ server.href_prefix["thing10"] = resp.path
  /\ Len(things.things) = 11

(***************************************************************************)
(* C38: with JWT authentication enabled, a request whose Authorization     *)
(* value is missing, malformed or does not verify never has the method of  *)
(* the wrapped handler executed, and nothing of the Thing (property        *)
(* values, action lists, subscribers) changes in the step of that request. *)
(***************************************************************************)
\* the Authorization value the request is judged by
AuthorizationOf(request) ==
  IF Truthy(request.header) THEN request.header
  ELSE IF request.upgrade = "websocket" THEN request.query
  ELSE NoValue

\* the value is there, has the form 'Bearer <token>' and its token verifies
Authorized(request) ==
  LET auth == AuthorizationOf(request)
  IN /\ Truthy(auth)
     /\ Len(auth.words) = 2
     /\ auth.words[1] \in {"Bearer", "bearer"}
     /\ auth.words[2] = "good"

C38_Step ==
  (resp'.op = "jwtauth" /\ resp'.enable /\ ~Authorized(resp'.request)) =>
    /\ ~resp'.executed
    /\ UNCHANGED <<last_value, forwarded, subscribers, available_events, events,
                   available_actions, actions, objs, conn, inbox, ioloop>>

C38_UnauthorizedStopped == [][C38_Step]_vars

\* after an authorized PUT set level to 10, a PUT of 50 whose header names
\* another method with a token that verifies is answered 401 and level is 10
C38_WrongMethodStopped ==
  /\ resp.op = "jwtauth" /\ resp.enable
  /\ resp.request.header = Words(<<"Basic", "good">>)
  /\ resp.request.value = JInt(50)
  /\ ~resp.executed
  /\ resp.handler.finished /\ resp.handler.status = AUTHORIZTION_ERROR_CODE
  /\ last_value["level"] = JInt(10)

====
